---- MODULE Spec2Model ----
(***************************************************************************)
(* The reactive dependency-tracking engine: Dep (subscriber lists),        *)
(* Watcher (effects), the computed getter, nextTick and the scheduler      *)
(* queue.  JavaScript is single threaded: the pending calls are kept on an *)
(* explicit call stack (`stack`), one frame per Watcher.get() whose getter *)
(* is executing and one per Dep.notify() whose loop is in progress.  What  *)
(* a getter function does (the user's code) is drawn from: read a cell,    *)
(* write a cell, read a computed property, tear a watcher down, return.    *)
(* SpecTrack is the engine without the scheduler (lazy and sync watchers), *)
(* SpecSched the engine with queued watchers, nextTick and the flush.      *)
(***************************************************************************)
EXTENDS Integers, Sequences, FiniteSets, TLC

\* ---------------------------------------------------------------- bounds
MaxWatchers == 2      \* watchers that are ever constructed
NumDeps == 2          \* reactive cells, one Dep each
MaxDepth == 3         \* nested calls (get / notify frames) on the stack
NumValues == 1        \* distinct values a getter may return

\* scheduler: the fixed number of re-queues of one watcher that the runaway
\* check tolerates within one flush
MAX_UPDATE_COUNT == 1

\* observer
NumObjs == 4          \* containers: 1 and 2 plain objects, the others arrays
NumKeys == 2          \* property names of the plain objects
NumPrims == 1         \* primitive values other than NaN
MaxVmCount == 1       \* vms that have one object as root $data
MaxNewDeps == 5       \* Deps created by the observer (beyond the cells' Deps)
NumVms == 3           \* component instances
MaxRequests == 3      \* resolveAsyncComponent calls for the factory
MaxSettleCalls == 2   \* calls of the factory's resolve (and of its reject)

WIds == 1..MaxWatchers
DepIds == 1..NumDeps
Values == 0..(NumValues - 1)
Undefined == -1       \* JavaScript undefined (a value no getter returns)
NoTarget == 0         \* Dep.target = null / undefined

VARIABLES
  uid,          \* watcher.js `let uid = 0`: the last watcher id given out
  watchers,     \* watchers[id]: the fields of the Watcher with that id
  subs,         \* subs[d]: Dep.subs of the Dep of cell d
  target,       \* Dep.target
  targetStack,  \* dep.js targetStack
  stack,        \* the call stack: get and notify frames, innermost last
  queue,        \* scheduler: the pending list
  has,          \* scheduler: the pending-membership set
  flushing,     \* scheduler: a flush is in progress
  waiting,      \* scheduler: a flush has been scheduled
  index,        \* scheduler: the flush cursor (1-based position in queue)
  running,      \* scheduler: run() of queue[index] has been called, not returned
  circular,     \* scheduler: re-queues of each watcher in the current flush
  callbacks,    \* next-tick.js callbacks
  pending,      \* next-tick.js pending
  timers,       \* flushCallbacks microtasks handed to timerFunc, not yet run
  hist,         \* history of the current burst / flush (observation only)
  objs,         \* observer/index.js: the containers (plain objects and arrays)
  shouldObserve,\* observer/index.js `export let shouldObserve`
  production,   \* process.env.NODE_ENV === 'production' (fixed by the build)
  async,        \* config.async (set before the program starts)
  olog,         \* what the last observer operation or unwatchFn call did
                \* (observation only)
  elog,         \* what the last exception of a getter did (observation only)
  vmWatchers,   \* vm._watchers: the owner's list of its watchers
  vms,          \* vms[v]: the fields of component instance v
  factory       \* the properties of an async component factory function

\* the state of the observer and of error handling
obsVars == <<objs, shouldObserve, production, async, olog, elog>>
\* all state outside the watchers, the Deps and the scheduler
extVars == <<obsVars, vmWatchers, vms, factory>>

vars == <<uid, watchers, subs, target, targetStack, stack, queue, has, flushing,
          waiting, index, running, circular, callbacks, pending, timers, hist,
          objs, shouldObserve, production, async, olog, elog, vmWatchers, vms, factory>>

schedVars == <<queue, has, flushing, waiting, index, running, circular,
               callbacks, pending, timers>>

\* ------------------------------------------------------------- sequences
Last(s) == s[Len(s)]
Front(s) == SubSeq(s, 1, Len(s) - 1)
Range(s) == {s[i] : i \in 1..Len(s)}
Count(s, x) == Cardinality({i \in 1..Len(s) : s[i] = x})
InsertAt(s, i, x) == SubSeq(s, 1, i) \o <<x>> \o SubSeq(s, i + 1, Len(s))
Min(a, b) == IF a < b THEN a ELSE b

\* shared/util remove(arr, item): splice out the first occurrence, if any
remove(arr, item) ==
  IF item \in Range(arr)
  THEN LET i == CHOOSE k \in 1..Len(arr) :
                  arr[k] = item /\ \A j \in 1..(k - 1) : arr[j] # item
       IN SubSeq(arr, 1, i - 1) \o SubSeq(arr, i + 1, Len(arr))
  ELSE arr

\* Array.prototype.sort((a, b) => a.id - b.id) on a list of watcher ids
RECURSIVE SortById(_)
SortById(s) ==
  IF s = <<>> THEN <<>>
  ELSE LET m == CHOOSE x \in Range(s) : \A y \in Range(s) : x <= y
       IN <<m>> \o SortById(remove(s, m))

\* ------------------------------------------------------------ the heap
\* A "heap" is the pair of the watchers' fields and the Deps' subscriber
\* lists, threaded through the pure operators below.
Heap(ws, sb) == [ws |-> ws, subs |-> sb]

\* Watcher.constructor: the fields of a new watcher
NewWatcher(lz, sy) ==
  [lazy |-> lz, sync |-> sy, user |-> FALSE, deep |-> FALSE, active |-> TRUE,
   dirty |-> lz,
   deps |-> <<>>, newDeps |-> <<>>, depIds |-> {}, newDepIds |-> {},
   value |-> Undefined]

\* Dep.addSub
addSub(H, d, w) == Heap(H.ws, [H.subs EXCEPT ![d] = Append(@, w)])

\* Dep.removeSub
removeSub(H, d, w) == Heap(H.ws, [H.subs EXCEPT ![d] = remove(@, w)])

\* addDep without the depIds test: subscribes again on every evaluation
addDep_noDepIds(H, w, d) ==
  IF d \notin H.ws[w].newDepIds
  THEN addSub(Heap([H.ws EXCEPT ![w].newDepIds = @ \cup {d},
                                ![w].newDeps = Append(@, d)], H.subs), d, w)
  ELSE H

\* Watcher.addDep
addDep(H, w, d) ==
  IF d \notin H.ws[w].newDepIds
  THEN LET H1 == Heap([H.ws EXCEPT ![w].newDepIds = @ \cup {d},
                                   ![w].newDeps = Append(@, d)], H.subs)
       IN IF d \notin H.ws[w].depIds THEN addSub(H1, d, w) ELSE H1
  ELSE H

\* Dep.depend, with tgt the value of Dep.target
depDepend(H, tgt, d) == IF tgt # NoTarget THEN addDep(H, tgt, d) ELSE H

\* the loop `let i = list.length; while (i--) { f(list[i]) }` for f = removeSub
\* guarded by a membership test (cleanupDeps) or unguarded (teardown)
RECURSIVE RemoveSubsNotIn(_, _, _, _)
RemoveSubsNotIn(H, w, list, keep) ==
  IF list = <<>> THEN H
  ELSE LET d == Last(list)
           H1 == IF d \notin keep THEN removeSub(H, d, w) ELSE H
       IN RemoveSubsNotIn(H1, w, Front(list), keep)

\* a cleanupDeps that swaps the generations without clearing the new one
cleanupDeps_keepNew(H, w) ==
  LET H1 == RemoveSubsNotIn(H, w, H.ws[w].deps, H.ws[w].newDepIds)
  IN Heap([H1.ws EXCEPT ![w].depIds = H.ws[w].newDepIds,
                        ![w].deps = H.ws[w].newDeps], H1.subs)

\* Watcher.cleanupDeps
cleanupDeps(H, w) ==
  LET H1 == RemoveSubsNotIn(H, w, H.ws[w].deps, H.ws[w].newDepIds)
  IN Heap([H1.ws EXCEPT ![w].depIds = H.ws[w].newDepIds,
                        ![w].newDepIds = {},
                        ![w].deps = H.ws[w].newDeps,
                        ![w].newDeps = <<>>], H1.subs)

\* a teardown() without the `if (this.active)` test
teardown_noActiveTest(H, w) ==
  LET H1 == RemoveSubsNotIn(H, w, H.ws[w].deps, {})
  IN Heap([H1.ws EXCEPT ![w].active = FALSE], H1.subs)

\* Watcher.teardown
teardown(H, w) ==
  IF H.ws[w].active
  THEN LET H1 == RemoveSubsNotIn(H, w, H.ws[w].deps, {})
       IN Heap([H1.ws EXCEPT ![w].active = FALSE], H1.subs)
  ELSE H

\* Watcher.depend: deps[i].depend() for i from the last to the first
RECURSIVE DependAll(_, _, _)
DependAll(H, tgt, list) ==
  IF list = <<>> THEN H
  ELSE DependAll(depDepend(H, tgt, Last(list)), tgt, Front(list))

watcherDepend(H, w, tgt) == DependAll(H, tgt, H.ws[w].deps)

\* ------------------------------------------------------------ call stack
\* target0 and depth0 are Dep.target and targetStack.length as Watcher.get
\* found them when it was called
GetFrame(w, cont) ==
  [kind |-> "get", w |-> w, cont |-> cont, d |-> 0, subs |-> <<>>, i |-> 0,
   reads |-> {}, target0 |-> target, depth0 |-> Len(targetStack)]
\* a notify() that never sorts
notifySnapshot_unsorted(list) == list

\* Dep.notify: `const subs = this.subs.slice()`, sorted by id when
\* `process.env.NODE_ENV !== 'production' && !config.async`
notifySnapshot(list) ==
  IF ~production /\ ~async
  THEN SortSeq(list, LAMBDA a, b : a < b)
  ELSE list

NotifyFrame(d, snapshot) ==
  [kind |-> "notify", w |-> 0, cont |-> "", d |-> d, subs |-> snapshot, i |-> 1,
   reads |-> {}, target0 |-> NoTarget, depth0 |-> 0]

\* top-level script code: nothing is executing and no flush is in progress
UserTop == stack = <<>> /\ ~flushing
\* the getter of the innermost Watcher.get() is executing
InGetter == stack # <<>> /\ Last(stack).kind = "get"
\* a hook handler (callHook) or a data function (getData) is executing
InHook == stack # <<>> /\ Last(stack).kind = "hook"
UserCtx == UserTop \/ InGetter \/ InHook

\* the stack with dep.depend() calls on the cells ds noted in the innermost
\* frame, when that frame is the evaluation of the watcher that is Dep.target
\* (the reads of a hook handler or data function are noted in its own frame)
NoteReads(st, tgt, ds) ==
  IF st # <<>> /\ Last(st).kind = "get" /\ Last(st).w = tgt
  THEN [st EXCEPT ![Len(st)].reads = @ \cup ds]
  ELSE IF st # <<>> /\ Last(st).kind = "hook"
  THEN [st EXCEPT ![Len(st)].reads = @ \cup ds]
  ELSE st

\* a notify loop over this.subs itself instead of the copy
loopSubs_live(f) == subs[f.d]

\* Dep.notify: the array its for loop goes through, `const subs =
\* this.subs.slice()`, for notify frame f
loopSubs(f) == f.subs

\* Dep.notify returns as soon as its loop is exhausted: the stack st with an
\* innermost notify frame that has no subscriber left popped
Settle(st) ==
  IF st # <<>> /\ Last(st).kind = "notify" /\ Last(st).i > Len(loopSubs(Last(st)))
  THEN Front(st)
  ELSE st

\* ----------------------------------------------------------------- hist
\* Observations of the run so far, read by the properties only:
\*   upd        queued watchers that got update() in the current burst,
\*              before its flush began
\*   multi      those of upd that got update() more than once
\*   runLog     the watchers the current flush has run, in order
\*   midq       watchers that queueWatcher accepted during the current flush
\*   lowInsert  one of them had an id not above the id of the watcher that
\*              was being run
\*   owed       active queued watchers that got update() during the current
\*              flush and have not been run since
\*   tripped    the current flush was broken off by the runaway check
\*   stale      lazy watchers that got update() since their last evaluate()
\*   calls      per lazy watcher, getter calls since its last update()
\*   creads     per lazy watcher, computed reads since its last update()
\*   afterFlush "ended" from the end of a flush to the next update() of a
\*              queued watcher, "requeued" from then to the next flush
HistInit ==
  [upd |-> {}, multi |-> {}, runLog |-> <<>>, midq |-> {}, lowInsert |-> FALSE,
   owed |-> {}, tripped |-> FALSE, stale |-> {},
   calls |-> [w \in WIds |-> 0],
   creads |-> [w \in WIds |-> 0],
   afterFlush |-> "no",
   cb |-> <<>>,
   registered |-> 0, ran |-> <<>>, reported |-> {}, lost |-> {},
   hookReads |-> {}]

\* ------------------------------------------------------- observer: data
\* JavaScript values: primitives, NaN, undefined and references to containers
PrimV(n) == [t |-> "prim", v |-> n]
NaNV == [t |-> "nan", v |-> 0]
UndefV == [t |-> "undef", v |-> 0]
RefV(o) == [t |-> "ref", v |-> o]

ObjIds == 1..NumObjs
Keys == 1..NumKeys
\* Array.isArray(o)
IsArray(o) == o > 2
PlainIds == {o \in ObjIds : ~IsArray(o)}

\* the elements of the arrays (array.js is not part of the source: the arrays
\* are never mutated): every array but the last holds the next array and a
\* primitive, the last one holds plain object 2
ArrayItems(o) ==
  IF o < NumObjs THEN <<RefV(o + 1), PrimV(0)>> ELSE <<RefV(2)>>

\* the values that code stores into the properties: primitives, NaN and a
\* reference to the first array
StoreVals ==
  {PrimV(n) : n \in 0..(NumPrims - 1)} \cup {NaNV, RefV(3)}

\* newVal === value
StrictEq(a, b) == a.t # "nan" /\ a = b

\* a property: dep = 0 for a plain data property, else the id of the Dep that
\* defineReactive closed over; childOb = 0 for undefined, else the Observer
\* (named by the id of its Dep) that defineReactive / reactiveSetter stored
\* custom is the customSetter that defineReactive was given: "none", or the
\* one initProps passes for a child instance ("prop") or for a root instance
\* ("rootProp")
NoSlot ==
  [has |-> FALSE, val |-> UndefV, dep |-> 0, childOb |-> 0, custom |-> "none"]
DataSlot(v) ==
  [has |-> TRUE, val |-> v, dep |-> 0, childOb |-> 0, custom |-> "none"]

\* what an object inherits under a key: nothing, a data property of a
\* prototype of its own (Object.create(proto)) whose name is not one of
\* Object.prototype, or a property of Object.prototype
ProtoKinds == {"none", "custom", "Object.prototype"}

\* a container without __ob__: ob is the id of the Dep of its Observer, 0 for
\* none; proto[k] is what the container inherits under key k
NewObj(s) ==
  [slots |-> s, ob |-> 0, vmCount |-> 0, proto |-> [k \in Keys |-> "none"]]

\* the containers as the program creates them: object 1 with property 1
\* holding a primitive, object 2 without properties (the arrays have none)
ObjsInit ==
  [o \in ObjIds |->
     NewObj([k \in Keys |->
               IF k = 1 /\ o = 1 THEN DataSlot(PrimV(0)) ELSE NoSlot])]

\* olog: the last observer operation, the Deps it called notify() on, and
\* whether it called warn()
NoLog == [op |-> "", notified |-> <<>>, warned |-> FALSE]
NoErr == [w |-> 0, reported |-> FALSE, thrown |-> FALSE]

\* the component instances.  Instance Owner is the one the watchers are
\* created for (vmWatchers is its _watchers).  data is the container that is
\* vm._data (0 before initData); decs and done count the `vmCount--` and the
\* returns of $destroy() calls that went beyond the first test (observation
\* only).  inactive is vm._inactive: "null", "true" or "false"; lastHook is
\* the last of 'activated' / 'deactivated' that callHook was called with
\* (observation only)
VmIds == 1..NumVms
Owner == 1
NewVm ==
  [data |-> 0, isBeingDestroyed |-> FALSE, isDestroyed |-> FALSE,
   decs |-> 0, done |-> 0,
   inactive |-> "null", directInactive |-> FALSE, lastHook |-> "none"]
VmsInit == [v \in VmIds |-> NewVm]

\* an async component factory before the first resolveAsyncComponent call.
\* ownersDef, resolved, errorComp and loadingComp say whether the property
\* of that name is defined; resolveCalled and rejectCalled are the `called`
\* flags of the two once() wrappers; timerLoading and timerTimeout say that
\* the timer is set; firstOwner is the owner captured by the
\* 'hook:destroyed' listener.  invoked, requests,
\* resolveCalls, rejectCalls, resolveEffects and rejectEffects count the
\* calls of the factory, of resolveAsyncComponent, of the two wrappers and
\* of the functions they wrap (observation only)
NewFactory ==
  [ownersDef |-> FALSE, owners |-> <<>>, firstOwner |-> 0,
   resolved |-> FALSE, error |-> FALSE, errorComp |-> FALSE,
   loading |-> FALSE, loadingComp |-> FALSE,
   resolveCalled |-> FALSE, rejectCalled |-> FALSE,
   timerLoading |-> FALSE, timerTimeout |-> FALSE,
   invoked |-> 0, requests |-> 0, resolveCalls |-> 0, rejectCalls |-> 0,
   resolveEffects |-> 0, rejectEffects |-> 0]

\* the state outside the engine before any observer operation
InitExt ==
  /\ objs = ObjsInit
  /\ shouldObserve = TRUE
  /\ production = FALSE
  /\ async = TRUE
  /\ olog = NoLog
  /\ elog = NoErr
  /\ vmWatchers = <<>>
  /\ vms = VmsInit
  /\ factory = NewFactory

\* the state of the engine after the modules have been loaded
InitEngine ==
  /\ uid = 0
  /\ watchers = <<>>
  /\ subs = [d \in DepIds |-> <<>>]
  /\ target = NoTarget
  /\ targetStack = <<>>
  /\ stack = <<>>
  /\ queue = <<>>
  /\ has = {}
  /\ flushing = FALSE
  /\ waiting = FALSE
  /\ index = 0
  /\ running = FALSE
  /\ circular = [w \in WIds |-> 0]
  /\ callbacks = <<>>
  /\ pending = FALSE
  /\ timers = 0
  /\ hist = HistInit

Init == InitExt /\ InitEngine

\* dep.js pushTarget, onto the call stack st: Watcher.get() up to the getter call
\* a popTarget() that leaves targetStack as it is
popTarget_noPop(ts) == ts

\* popTarget(): `targetStack.pop()`; Dep.target is then TargetOf the result
popTarget(ts) == Front(ts)

\* `targetStack[targetStack.length - 1]`
TargetOf(ts) == IF ts = <<>> THEN NoTarget ELSE Last(ts)

pushGet(st, w, cont) ==
  /\ Len(st) < MaxDepth
  /\ stack' = Append(st, GetFrame(w, cont))
  /\ targetStack' = Append(targetStack, w)
  /\ target' = w

\* next-tick.js nextTick(cb)
\* a nextTick that calls timerFunc() on every call
nextTick_noPendingTest(cb) ==
  /\ callbacks' = Append(callbacks, cb)
  /\ pending' = TRUE
  /\ timers' = timers + 1

nextTick(cb) ==
  /\ callbacks' = Append(callbacks, cb)
  /\ IF ~pending
     THEN pending' = TRUE /\ timers' = timers + 1
     ELSE UNCHANGED <<pending, timers>>

\* an insertion position that ignores the ids: always the end of the list
InsertPos_atEnd(q, i, idx, id) == Len(q)

\* scheduler: the position after which queueWatcher inserts during a flush:
\* scanning backward from the end, the first entry whose id is <= id, but
\* never before the cursor
RECURSIVE InsertPos(_, _, _, _)
InsertPos(q, i, idx, id) ==
  IF i > idx /\ q[i] > id THEN InsertPos(q, i - 1, idx, id) ELSE i

\* a queueWatcher that leaves the list alone while a flush is in progress
Enqueue_notInFlush(q, w) == IF ~flushing THEN Append(q, w) ELSE q

\* scheduler: the pending list after queueWatcher has accepted watcher w
Enqueue(q, w) ==
  IF ~flushing THEN Append(q, w)
  ELSE InsertAt(q, InsertPos(q, Len(q), index, w), w)

\* scheduler: the membership test of queueWatcher
Accepts(w) == w \notin has

\* scheduler: queueWatcher(watcher)
queueWatcher(w) ==
  IF Accepts(w)
  THEN /\ has' = has \cup {w}
       /\ queue' = Enqueue(queue, w)
       /\ circular' = IF flushing /\ w \in Range(SubSeq(queue, 1, index))
                      THEN [circular EXCEPT ![w] = Min(@ + 1, MAX_UPDATE_COUNT + 1)]
                      ELSE circular
       /\ IF ~waiting
          THEN waiting' = TRUE /\ nextTick("flushSchedulerQueue")
          ELSE UNCHANGED <<waiting, callbacks, pending, timers>>
       /\ UNCHANGED <<flushing, index, running>>
  ELSE UNCHANGED schedVars

\* hist after update() has been called on watcher w
HistUpdate(w) ==
  LET wt == watchers[w]
      queued == ~wt.lazy /\ ~wt.sync
  IN [hist EXCEPT
        !.upd = IF queued /\ ~flushing THEN @ \cup {w} ELSE @,
        !.multi = IF queued /\ ~flushing /\ w \in hist.upd THEN @ \cup {w} ELSE @,
        !.midq = IF queued /\ flushing /\ w \notin has THEN @ \cup {w} ELSE @,
        !.owed = IF queued /\ flushing /\ wt.active THEN @ \cup {w} ELSE @,
        !.lowInsert = @ \/ (queued /\ flushing /\ w \notin has /\ w <= queue[index]),
        !.stale = IF wt.lazy THEN @ \cup {w} ELSE @,
        !.calls[w] = IF wt.lazy THEN 0 ELSE @,
        !.creads[w] = IF wt.lazy THEN 0 ELSE @,
        !.afterFlush = IF queued /\ @ = "ended" THEN "requeued" ELSE @]

\* Watcher.run, called with st the caller's stack: up to the getter call
run(w, st) ==
  IF watchers[w].active
  THEN /\ pushGet(st, w, "run")
       /\ UNCHANGED <<watchers, subs>>
  ELSE /\ stack' = Settle(st)
       /\ UNCHANGED <<watchers, subs, target, targetStack>>

\* an update() that never defers: every watcher that is not lazy is run at once
update_runNow(w, st) ==
  /\ hist' = HistUpdate(w)
  /\ UNCHANGED <<uid, extVars>>
  /\ IF watchers[w].lazy
     THEN /\ watchers' = [watchers EXCEPT ![w].dirty = TRUE]
          /\ stack' = Settle(st)
          /\ UNCHANGED <<subs, target, targetStack, schedVars>>
     ELSE /\ run(w, st)
          /\ UNCHANGED schedVars

\* Watcher.update, called with st the caller's stack
\* an update() that tests sync before lazy
update_syncFirst(w, st) ==
  /\ hist' = HistUpdate(w)
  /\ UNCHANGED <<uid, extVars>>
  /\ IF watchers[w].sync
     THEN /\ run(w, st)
          /\ UNCHANGED schedVars
     ELSE IF watchers[w].lazy
     THEN /\ watchers' = [watchers EXCEPT ![w].dirty = TRUE]
          /\ stack' = Settle(st)
          /\ UNCHANGED <<subs, target, targetStack, schedVars>>
     ELSE /\ queueWatcher(w)
          /\ stack' = Settle(st)
          /\ UNCHANGED <<watchers, subs, target, targetStack>>

update(w, st) ==
  /\ hist' = HistUpdate(w)
  /\ UNCHANGED <<uid, extVars>>
  /\ IF watchers[w].lazy
     THEN /\ watchers' = [watchers EXCEPT ![w].dirty = TRUE]
          /\ stack' = Settle(st)
          /\ UNCHANGED <<subs, target, targetStack, schedVars>>
     ELSE IF watchers[w].sync
     THEN /\ run(w, st)
          /\ UNCHANGED schedVars
     ELSE /\ queueWatcher(w)
          /\ stack' = Settle(st)
          /\ UNCHANGED <<watchers, subs, target, targetStack>>

\* --------------------------------------------------------------- actions
\* new Watcher(vm, getter, cb, {lazy: lz, sync: sy}) from top-level code
Construct(lz, sy) ==
  /\ UserTop
  /\ uid < MaxWatchers
  /\ uid' = uid + 1
  /\ watchers' = Append(watchers, NewWatcher(lz, sy))
  /\ vmWatchers' = Append(vmWatchers, uid + 1)
  /\ UNCHANGED <<vms, factory>>
  /\ IF lz
     THEN UNCHANGED <<stack, target, targetStack>>
     ELSE pushGet(stack, uid + 1, "ctor")
  /\ UNCHANGED <<obsVars, subs, schedVars, hist>>

\* the running code reads cell d: reactiveGetter, `if (Dep.target) dep.depend()`
Read(d) ==
  /\ UserCtx
  /\ LET H == depDepend(Heap(watchers, subs), target, d)
     IN /\ watchers' = H.ws
        /\ subs' = H.subs
        /\ stack' = NoteReads(stack, target, {d})
  /\ UNCHANGED <<extVars, uid, target, targetStack, schedVars, hist>>

\* the running code writes a new value to cell d: reactiveSetter reaches
\* dep.notify(), which takes its snapshot of the subscriber list
Write(d) ==
  /\ UserCtx
  /\ subs[d] # <<>>
  /\ Len(stack) < MaxDepth
  /\ stack' = Append(stack, NotifyFrame(d, notifySnapshot(subs[d])))
  /\ UNCHANGED <<extVars, uid, watchers, subs, target, targetStack, schedVars, hist>>

\* Dep.notify: one iteration of `for (i...) subs[i].update()`
NotifyStep ==
  /\ stack # <<>>
  /\ Last(stack).kind = "notify"
  /\ Last(stack).i <= Len(loopSubs(Last(stack)))
  /\ update(loopSubs(Last(stack))[Last(stack).i],
            [stack EXCEPT ![Len(stack)].i = @ + 1])

\* vm.$forceUpdate() from top-level code: update() called directly on the
\* render watcher (a watcher that is neither lazy nor sync)
ForceUpdate(w) ==
  /\ UserTop
  /\ w \in 1..uid
  /\ ~watchers[w].lazy /\ ~watchers[w].sync
  /\ update(w, stack)

\* the running code reads the computed property backed by lazy watcher w:
\* computedGetter.  A computed getter that reads its own property does not
\* return (dirty stays true until get() returns), so such reads are left out.
ReadComputed(w) ==
  /\ UserCtx
  /\ w \in 1..uid
  /\ watchers[w].lazy
  /\ w \notin Range(targetStack)
  /\ IF watchers[w].dirty
     THEN /\ pushGet(stack, w, "computedGetter")
          /\ hist' = [hist EXCEPT !.calls[w] = Min(@ + 1, 2),
                                  !.creads[w] = Min(@ + 1, 2)]
          /\ UNCHANGED <<watchers, subs>>
     ELSE /\ LET H == IF target # NoTarget
                      THEN watcherDepend(Heap(watchers, subs), w, target)
                      ELSE Heap(watchers, subs)
             IN /\ watchers' = H.ws
                /\ subs' = H.subs
                /\ stack' = IF target # NoTarget
                            THEN NoteReads(stack, target, Range(watchers[w].deps))
                            ELSE stack
          /\ hist' = [hist EXCEPT !.creads[w] = Min(@ + 1, 2)]
          /\ UNCHANGED <<target, targetStack>>
  /\ UNCHANGED <<extVars, uid, schedVars>>

\* the running code calls w.teardown() (unwatch, $destroy)
Teardown(w) ==
  /\ UserCtx
  /\ w \in 1..uid
  /\ LET H == teardown(Heap(watchers, subs), w)
     IN watchers' = H.ws /\ subs' = H.subs
  /\ vmWatchers' = IF watchers[w].active /\ ~vms[Owner].isBeingDestroyed
                   THEN remove(vmWatchers, w)
                   ELSE vmWatchers
  /\ UNCHANGED <<vms, factory>>
  /\ UNCHANGED <<obsVars, uid, stack, target, targetStack, schedVars, hist>>

\* the unwatchFn that $watch returned for watcher w is called (any number of
\* times): watcher.teardown(); olog notes whether the watcher had been torn
\* down before the call
Unwatch(w) ==
  /\ UserCtx
  /\ w \in 1..uid
  /\ LET H == teardown(Heap(watchers, subs), w)
     IN watchers' = H.ws /\ subs' = H.subs
  /\ vmWatchers' = IF watchers[w].active /\ ~vms[Owner].isBeingDestroyed
                   THEN remove(vmWatchers, w)
                   ELSE vmWatchers
  /\ UNCHANGED <<vms, factory>>
  /\ olog' = [op |-> IF watchers[w].active THEN "unwatch" ELSE "unwatch again",
              notified |-> <<>>, warned |-> FALSE]
  /\ UNCHANGED <<objs, shouldObserve, production, async, elog, uid, stack, target,
                 targetStack, schedVars, hist>>

\* an evaluate() that stores the value and leaves dirty as it is
evaluate_keepDirty(H, w, v) == Heap([H.ws EXCEPT ![w].value = v], H.subs)

\* Watcher.evaluate after get() has returned v
evaluate(H, w, v) ==
  Heap([H.ws EXCEPT ![w].value = v, ![w].dirty = FALSE], H.subs)

\* Watcher.run after get() has returned v (values are primitives, the
\* watcher is not deep): store v when it differs
\* isObject(value) for the values that getters return: FirstObject and above
\* are objects and arrays, the values below are primitives
FirstObject == 2
isObject(v) == v >= FirstObject

\* a run() that fires only when the value has changed
runFires_changedOnly(wt, v) == v # wt.value

\* run(): `value !== this.value || isObject(value) || this.deep`
runFires(wt, v) == v # wt.value \/ isObject(v) \/ wt.deep

\* run() after this.get() has returned v: `this.value = value` and the call
\* of the callback
runTail(H, w, v) ==
  IF runFires(H.ws[w], v)
  THEN Heap([H.ws EXCEPT ![w].value = v], H.subs)
  ELSE H

\* hist.cb: the arguments (and the watcher) of the call of this.cb that the
\* last run() made, <<>> when it made none
runCallback(h, wt, w, v) ==
  [h EXCEPT !.cb = IF runFires(wt, v) THEN <<w, v, wt.value>> ELSE <<>>]

\* a runaway check that never fires
Runaway_never(w) == FALSE

\* scheduler: the runaway check after watcher w has been run
Runaway(w) == circular[w] > MAX_UPDATE_COUNT

\* Watcher.get from the return of the getter (with value v) on: popTarget,
\* cleanupDeps, and what the caller of get() does with the value:
\*   ctor            this.value = this.get()
\*   run             Watcher.run after get()
\*   computedGetter  Watcher.evaluate after get(), then computedGetter's
\*                   `if (Dep.target) watcher.depend()`
\* When the call returns into flushSchedulerQueue (run() of queue[index]), the
\* rest of the loop body follows: the runaway check, then index++.
EndGet(v) ==
  /\ InGetter
  /\ LET f == Last(stack)
         w == f.w
         ts == popTarget(targetStack)
         tgt == TargetOf(ts)
         H1 == cleanupDeps(Heap(watchers, subs), w)
         H2 == IF f.cont = "ctor"
               THEN Heap([H1.ws EXCEPT ![w].value = v], H1.subs)
               ELSE IF f.cont = "run"
               THEN runTail(H1, w, v)
               ELSE LET H3 == evaluate(H1, w, v)
                    IN IF tgt # NoTarget THEN watcherDepend(H3, w, tgt) ELSE H3
     IN /\ targetStack' = ts
        /\ target' = tgt
        /\ watchers' = H2.ws
        /\ subs' = H2.subs
        /\ stack' = IF f.cont = "computedGetter" /\ tgt # NoTarget
                    THEN NoteReads(Front(stack), tgt, Range(H1.ws[w].deps))
                    ELSE Settle(Front(stack))
        /\ IF running /\ Len(stack) = 1
           THEN /\ running' = FALSE
                /\ index' = IF Runaway(w) THEN index ELSE index + 1
                /\ hist' = [runCallback(hist, H1.ws[w], w, v)
                              EXCEPT !.tripped = Runaway(w)]
           ELSE /\ hist' = IF f.cont = "computedGetter"
                           THEN [hist EXCEPT !.stale = @ \ {w}]
                           ELSE IF f.cont = "run"
                           THEN runCallback(hist, H1.ws[w], w, v)
                           ELSE hist
                /\ UNCHANGED <<running, index>>
  /\ UNCHANGED <<extVars, uid, queue, has, flushing, waiting, circular, callbacks,
                 pending, timers>>

\* a flush prologue that does not sort
SortQueue_unsorted(q) == q

\* scheduler: the sort of the pending list by id, ascending, before the flush
SortQueue(q) == SortById(q)

\* next-tick.js flushCallbacks, run as a microtask when the call stack is
\* empty; the only callback registered here is flushSchedulerQueue, whose
\* prologue (flushing = true, sort, index = 0) is part of this step

FlushCallbacks ==
  /\ timers > 0
  /\ stack = <<>>
  /\ ~flushing
  /\ timers' = timers - 1
  /\ pending' = FALSE
  /\ callbacks' = <<>>
  /\ flushing' = TRUE
  /\ queue' = SortQueue(queue)
  /\ index' = 1
  /\ hist' = [hist EXCEPT !.afterFlush = "no"]
  /\ UNCHANGED <<extVars, uid, watchers, subs, target, targetStack, stack, has, waiting,
                 running, circular>>

\* flushSchedulerQueue: the loop body up to the call of watcher.run()
FlushStep ==
  /\ flushing /\ ~running /\ ~hist.tripped
  /\ stack = <<>>
  /\ index <= Len(queue)
  /\ LET w == queue[index]
     IN /\ has' = has \ {w}
        /\ IF watchers[w].active
           THEN /\ pushGet(stack, w, "run")
                /\ running' = TRUE
                /\ hist' = [hist EXCEPT !.runLog = Append(@, w),
                                        !.owed = @ \ {w}]
                /\ UNCHANGED index
           ELSE /\ index' = index + 1
                /\ hist' = [hist EXCEPT !.owed = @ \ {w}]
                /\ UNCHANGED <<stack, target, targetStack, running>>
  /\ UNCHANGED <<extVars, uid, watchers, subs, queue, flushing, waiting, circular,
                 callbacks, pending, timers>>

\* a flush end that does not clear the pending-membership set
FlushEnd_keepHas ==
  /\ flushing /\ ~running
  /\ stack = <<>>
  /\ index > Len(queue) \/ hist.tripped
  /\ queue' = <<>>
  /\ has' = has
  /\ index' = 0
  /\ circular' = [w \in WIds |-> 0]
  /\ waiting' = FALSE
  /\ flushing' = FALSE
  /\ hist' = [hist EXCEPT !.upd = {}, !.multi = {}, !.runLog = <<>>,
                          !.midq = {}, !.lowInsert = FALSE, !.owed = {},
                          !.tripped = FALSE, !.afterFlush = "ended"]
  /\ UNCHANGED <<extVars, uid, watchers, subs, target, targetStack, stack, running,
                 callbacks, pending, timers>>

\* flushSchedulerQueue: the loop has ended (exhausted, or broken out of by
\* the runaway check): resetSchedulerState
FlushEnd ==
  /\ flushing /\ ~running
  /\ stack = <<>>
  /\ index > Len(queue) \/ hist.tripped
  /\ queue' = <<>>
  /\ has' = {}
  /\ index' = 0
  /\ circular' = [w \in WIds |-> 0]
  /\ waiting' = FALSE
  /\ flushing' = FALSE
  /\ hist' = [hist EXCEPT !.upd = {}, !.multi = {}, !.runLog = <<>>,
                          !.midq = {}, !.lowInsert = FALSE, !.owed = {},
                          !.tripped = FALSE, !.afterFlush = "ended"]
  /\ UNCHANGED <<extVars, uid, watchers, subs, target, targetStack, stack, running,
                 callbacks, pending, timers>>

\* ------------------------------------------------------ getter errors
\* vm.$watch(expOrFn, cb, {deep: true, sync: sy}); the reads that
\* traverse(value) makes in get() are reads of the getter
WatchDeep(sy) ==
  /\ UserTop
  /\ uid < MaxWatchers
  /\ uid' = uid + 1
  /\ watchers' = Append(watchers, [NewWatcher(FALSE, sy) EXCEPT !.user = TRUE,
                                                               !.deep = TRUE])
  /\ vmWatchers' = Append(vmWatchers, uid + 1)
  /\ UNCHANGED <<vms, factory>>
  /\ pushGet(stack, uid + 1, "ctor")
  /\ UNCHANGED <<obsVars, subs, schedVars, hist>>

\* vm.$watch(expOrFn, cb, options): options.user = true; new Watcher(...)
\* (not immediate)
Watch(sy) ==
  /\ UserTop
  /\ uid < MaxWatchers
  /\ uid' = uid + 1
  /\ watchers' = Append(watchers, [NewWatcher(FALSE, sy) EXCEPT !.user = TRUE])
  /\ vmWatchers' = Append(vmWatchers, uid + 1)
  /\ UNCHANGED <<vms, factory>>
  /\ pushGet(stack, uid + 1, "ctor")
  /\ UNCHANGED <<obsVars, subs, schedVars, hist>>

\* a catch block that never rethrows
catches_always(w) == TRUE

\* Watcher.get's catch block: `if (this.user) handleError(...) else throw e`
catches(w) == watchers[w].user

\* an exception leaves Dep.notify, Watcher.update and Watcher.run (none of
\* them has a handler): the stack st without its innermost notify frames
RECURSIVE Unwind(_)
Unwind(st) ==
  IF st = <<>> \/ Last(st).kind = "get" THEN st ELSE Unwind(Front(st))

\* the getter that is executing throws (outside a flush).  Watcher.get's
\* finally block runs popTarget() and cleanupDeps().  A user watcher reports
\* the error through handleError and get() returns undefined to its caller,
\* which goes on as after any get().  Otherwise the exception leaves get()
\* and its callers up to the code that started them: the enclosing getter
\* (which may handle it or throw in its turn) or top-level code.
Throw ==
  /\ InGetter
  /\ ~flushing
  /\ LET f == Last(stack)
         w == f.w
         ts == popTarget(targetStack)
         tgt == TargetOf(ts)
         H1 == cleanupDeps(Heap(watchers, subs), w)
         H2 == IF f.cont = "ctor"
               THEN Heap([H1.ws EXCEPT ![w].value = Undefined], H1.subs)
               ELSE IF f.cont = "run"
               THEN runTail(H1, w, Undefined)
               ELSE evaluate(H1, w, Undefined)
     IN /\ targetStack' = ts
        /\ target' = tgt
        /\ IF catches(w)
           THEN /\ watchers' = H2.ws
                /\ subs' = H2.subs
                /\ stack' = Settle(Front(stack))
                /\ elog' = [w |-> w, reported |-> TRUE, thrown |-> FALSE]
                /\ hist' = IF f.cont = "run"
                           THEN runCallback(hist, H1.ws[w], w, Undefined)
                           ELSE hist
           ELSE /\ watchers' = H1.ws
                /\ subs' = H1.subs
                /\ stack' = Unwind(Front(stack))
                /\ elog' = [w |-> w, reported |-> FALSE, thrown |-> TRUE]
                /\ UNCHANGED hist
  /\ UNCHANGED <<objs, shouldObserve, production, async, olog, vmWatchers, vms, factory, uid,
                 schedVars>>

\* ------------------------------------------------- observer: operations
\* The operations of observer/index.js as functions on an "observer heap":
\* the containers, the Deps' subscriber lists (new Dep() adds an entry), the
\* Deps on which notify() has been called, whether warn() has been called,
\* the shouldObserve switch (so) and isUpdatingChildComponent of lifecycle.js
\* (updating).
OHeap(ob, sb) ==
  [objs |-> ob, subs |-> sb, notified |-> <<>>, warned |-> FALSE,
   so |-> shouldObserve, updating |-> FALSE]

\* new Dep(): dep.js `this.id = uid++; this.subs = []`
LastDep(OH) == Cardinality(DOMAIN OH.subs)
AllocDep(OH) == [OH EXCEPT !.subs = @ @@ ((LastDep(OH) + 1) :> <<>>)]

\* value.__ob__ for a value v: the Observer (the id of its Dep), 0 for none
ObOf(OH, v) == IF v.t = "ref" THEN OH.objs[v.v].ob ELSE 0

\* Object.keys(obj): the own keys in S, in ascending order
RECURSIVE Ascending(_)
Ascending(S) ==
  IF S = {} THEN <<>>
  ELSE LET m == CHOOSE x \in S : \A y \in S : x <= y
       IN <<m>> \o Ascending(S \ {m})

RECURSIVE observeIn(_, _)
RECURSIVE NewObserver(_, _)
RECURSIVE observeArray(_, _)
RECURSIVE walk(_, _, _)
RECURSIVE defineReactive(_, _, _, _, _)

\* an observe() that ignores the shouldObserve switch
observeIn_noSwitch(OH, v) ==
  IF v.t # "ref" THEN OH
  ELSE IF OH.objs[v.v].ob # 0 THEN OH
  ELSE NewObserver(OH, v.v)

\* an observe() that does not look for an existing __ob__
observeIn_noObTest(OH, v) ==
  IF v.t # "ref" THEN OH
  ELSE IF OH.so THEN NewObserver(OH, v.v)
  ELSE OH

\* observe(value) without asRootData: the heap afterwards (the Observer that
\* observe returns is ObOf of that heap).  The containers are plain
\* extensible objects and arrays, never VNodes or Vue instances.
observeIn(OH, v) ==
  IF v.t # "ref" THEN OH
  ELSE IF OH.objs[v.v].ob # 0 THEN OH
  ELSE IF OH.so THEN NewObserver(OH, v.v)
  ELSE OH

\* Observer.constructor
NewObserver(OH, o) ==
  LET H1 == AllocDep(OH)
      H2 == [H1 EXCEPT !.objs[o].ob = LastDep(H1), !.objs[o].vmCount = 0]
  IN IF IsArray(o)
     THEN observeArray(H2, ArrayItems(o))
     ELSE walk(H2, o, Ascending({k \in Keys : H2.objs[o].slots[k].has}))

\* Observer.observeArray
observeArray(OH, items) ==
  IF items = <<>> THEN OH
  ELSE observeArray(observeIn(OH, Head(items)), Tail(items))

\* Observer.walk over the keys ks (Object.keys(obj), taken before the loop)
walk(OH, o, ks) ==
  IF ks = <<>> THEN OH
  ELSE walk(defineReactive(OH, o, Head(ks), OH.objs[o].slots[Head(ks)].val,
                           "none"),
            o, Tail(ks))

\* defineReactive(obj, key, val, customSetter) for a configurable data
\* property (or a new key), not shallow: new Dep(), childOb = observe(val),
\* Object.defineProperty
defineReactive(OH, o, k, val, customSetter) ==
  LET H1 == AllocDep(OH)
      H2 == observeIn(H1, val)
  IN [H2 EXCEPT !.objs[o].slots[k] =
        [has |-> TRUE, val |-> val, dep |-> LastDep(H1),
         childOb |-> ObOf(H2, val), custom |-> customSetter]]

\* reactiveSetter's `if (process.env.NODE_ENV !== 'production' &&
\* customSetter) customSetter()`, the customSetter being the one of
\* initProps: `if (!isRoot && !isUpdatingChildComponent) warn(...)`
callCustomSetter(OH, customSetter) ==
  IF ~production /\ customSetter = "prop" /\ ~OH.updating
  THEN [OH EXCEPT !.warned = TRUE]
  ELSE OH

\* observe(value, asRootData)
observe(OH, v, asRootData) ==
  LET H1 == observeIn(OH, v)
  IN IF asRootData /\ ObOf(H1, v) # 0
     THEN [H1 EXCEPT !.objs[v.v].vmCount = @ + 1]
     ELSE H1

\* a reactiveSetter that keeps childOb as it was (no observe(newVal))
reactiveSetter_keepChildOb(OH, o, k, newVal) ==
  LET sl == OH.objs[o].slots[k]
      value == sl.val
  IN IF StrictEq(newVal, value)
        \/ (~StrictEq(newVal, newVal) /\ ~StrictEq(value, value))
     THEN OH
     ELSE LET H0 == callCustomSetter(OH, sl.custom)
          IN [H0 EXCEPT !.objs[o].slots[k].val = newVal,
                        !.notified = Append(@, sl.dep)]

\* a reactiveSetter without the NaN exception
reactiveSetter_noNaN(OH, o, k, newVal) ==
  LET sl == OH.objs[o].slots[k]
  IN IF StrictEq(newVal, sl.val)
     THEN OH
     ELSE LET H0 == callCustomSetter(OH, sl.custom)
              H1 == [H0 EXCEPT !.objs[o].slots[k].val = newVal]
              H2 == observeIn(H1, newVal)
          IN [H2 EXCEPT !.objs[o].slots[k].childOb = ObOf(H2, newVal),
                        !.notified = Append(@, sl.dep)]

\* a reactiveSetter that returns once the customSetter has been called
reactiveSetter_customRejects(OH, o, k, newVal) ==
  LET sl == OH.objs[o].slots[k]
      value == sl.val
  IN IF StrictEq(newVal, value)
        \/ (~StrictEq(newVal, newVal) /\ ~StrictEq(value, value))
     THEN OH
     ELSE LET H0 == callCustomSetter(OH, sl.custom)
              H1 == [H0 EXCEPT !.objs[o].slots[k].val = newVal]
              H2 == observeIn(H1, newVal)
          IN IF ~production /\ sl.custom # "none"
             THEN H0
             ELSE [H2 EXCEPT !.objs[o].slots[k].childOb = ObOf(H2, newVal),
                             !.notified = Append(@, sl.dep)]

\* defineReactive's reactiveSetter(newVal) of property k of object o (no
\* pre-defined getter / setter)
reactiveSetter(OH, o, k, newVal) ==
  LET sl == OH.objs[o].slots[k]
      value == sl.val
  IN IF StrictEq(newVal, value)
        \/ (~StrictEq(newVal, newVal) /\ ~StrictEq(value, value))
     THEN OH
     ELSE LET H0 == callCustomSetter(OH, sl.custom)
              H1 == [H0 EXCEPT !.objs[o].slots[k].val = newVal]
              H2 == observeIn(H1, newVal)
          IN [H2 EXCEPT !.objs[o].slots[k].childOb = ObOf(H2, newVal),
                        !.notified = Append(@, sl.dep)]

\* the assignment `obj[key] = val`: the accessor's setter when there is one,
\* else a plain data property is written or created
assign(OH, o, k, val) ==
  IF OH.objs[o].slots[k].has /\ OH.objs[o].slots[k].dep # 0
  THEN reactiveSetter(OH, o, k, val)
  ELSE [OH EXCEPT !.objs[o].slots[k] = DataSlot(val)]

\* `key in target`: an own or an inherited property
keyIn(t, k) == t.slots[k].has \/ t.proto[k] # "none"

\* `key in Object.prototype`
keyInObjectPrototype(t, k) == t.proto[k] = "Object.prototype"

\* a set() that adds a new key of a wrapped object as a plain data property
set_noDefineReactive(OH, o, k, val) ==
  LET t == OH.objs[o]
  IN IF t.slots[k].has
     THEN assign(OH, o, k, val)
     ELSE IF t.ob # 0 /\ t.vmCount # 0
     THEN [OH EXCEPT !.warned = ~production]
     ELSE IF t.ob = 0
     THEN assign(OH, o, k, val)
     ELSE LET H1 == assign(OH, o, k, val)
          IN [H1 EXCEPT !.notified = Append(@, t.ob)]

\* set(target, key, val) for a plain object target (no array, no Vue
\* instance).  Where defineReactive is reached for a key that is an own
\* property, that property is a data property.
set(OH, o, k, val) ==
  LET t == OH.objs[o]
  IN IF keyIn(t, k) /\ ~keyInObjectPrototype(t, k)
     THEN assign(OH, o, k, val)
     ELSE IF t.ob # 0 /\ t.vmCount # 0
     THEN [OH EXCEPT !.warned = ~production]
     ELSE IF t.ob = 0
     THEN assign(OH, o, k, val)
     ELSE LET H1 == defineReactive(OH, o, k, val, "none")
          IN [H1 EXCEPT !.notified = Append(@, t.ob)]

\* a del() that does not test vmCount
del_noRootTest(OH, o, k) ==
  LET t == OH.objs[o]
  IN IF ~t.slots[k].has THEN OH
     ELSE LET H1 == [OH EXCEPT !.objs[o].slots[k] = NoSlot]
          IN IF t.ob = 0 THEN H1
             ELSE [H1 EXCEPT !.notified = Append(@, t.ob)]

\* a del() that tests `!ob` before `delete target[key]`
del_obTestFirst(OH, o, k) ==
  LET t == OH.objs[o]
  IN IF t.ob = 0 THEN OH ELSE del_noRootTest(OH, o, k)

\* a del() without the hasOwn test
del_noOwnTest(OH, o, k) ==
  LET t == OH.objs[o]
  IN IF t.ob # 0 /\ t.vmCount # 0
     THEN [OH EXCEPT !.warned = ~production]
     ELSE LET H1 == [OH EXCEPT !.objs[o].slots[k] = NoSlot]
          IN IF t.ob = 0 THEN H1
             ELSE [H1 EXCEPT !.notified = Append(@, t.ob)]

\* del(target, key) for a plain object target
del(OH, o, k) ==
  LET t == OH.objs[o]
  IN IF t.ob # 0 /\ t.vmCount # 0
     THEN [OH EXCEPT !.warned = ~production]
     ELSE IF ~t.slots[k].has
     THEN OH
     ELSE LET H1 == [OH EXCEPT !.objs[o].slots[k] = NoSlot]
          IN IF t.ob = 0 THEN H1
             ELSE [H1 EXCEPT !.notified = Append(@, t.ob)]

\* dependArray(value) with tgt the value of Dep.target
RECURSIVE dependArray(_, _, _)
dependArray(H, tgt, items) ==
  IF items = <<>> THEN H
  ELSE LET e == Head(items)
           H1 == IF e.t = "ref" /\ objs[e.v].ob # 0
                 THEN depDepend(H, tgt, objs[e.v].ob)
                 ELSE H
           H2 == IF e.t = "ref" /\ IsArray(e.v)
                 THEN dependArray(H1, tgt, ArrayItems(e.v))
                 ELSE H1
       IN dependArray(H2, tgt, Tail(items))

\* defineReactive's reactiveGetter of property k of object o, with tgt the
\* value of Dep.target
reactiveGetter(H, tgt, o, k) ==
  LET sl == objs[o].slots[k]
  IN IF tgt # NoTarget
     THEN LET H1 == depDepend(H, tgt, sl.dep)
          IN IF sl.childOb # 0
             THEN LET H2 == depDepend(H1, tgt, sl.childOb)
                  IN IF sl.val.t = "ref" /\ IsArray(sl.val.v)
                     THEN dependArray(H2, tgt, ArrayItems(sl.val.v))
                     ELSE H2
             ELSE H1
     ELSE H

\* ---------------------------------------------------- observer: actions
\* the effects of an observer operation that ended in heap OH: the new
\* containers and Deps, and Dep.notify() (which takes its snapshot) for the
\* Dep it was called on, if any
ObsEffects(op, OH) ==
  /\ LastDep(OH) <= NumDeps + MaxNewDeps
  /\ objs' = OH.objs
  /\ subs' = OH.subs
  /\ shouldObserve' = OH.so
  /\ olog' = [op |-> op, notified |-> OH.notified, warned |-> OH.warned]
  /\ stack' = IF OH.notified # <<>> /\ OH.subs[Head(OH.notified)] # <<>>
              THEN Append(stack,
                          NotifyFrame(Head(OH.notified),
                                      notifySnapshot(OH.subs[Head(OH.notified)])))
              ELSE stack
  /\ UNCHANGED <<uid, watchers, target, targetStack, schedVars, hist,
                 production, async, elog, vmWatchers, factory>>

\* an observer operation that is not part of an instance's life cycle
ObsCommit(op, OH) == ObsEffects(op, OH) /\ UNCHANGED <<vms, factory>>

\* top-level code calls observe(value, asRootData) (initData: asRootData)
Observe(v, asRootData) ==
  /\ UserTop
  /\ LET OH == observe(OHeap(objs, subs), v, asRootData)
     IN /\ \A o \in ObjIds : OH.objs[o].vmCount <= MaxVmCount
        /\ ObsCommit("observe", OH)

\* vm.$destroy(): vm._data.__ob__.vmCount--
Unroot(o) ==
  /\ UserTop
  /\ objs[o].ob # 0 /\ objs[o].vmCount > 0
  /\ objs' = [objs EXCEPT ![o].vmCount = @ - 1]
  /\ olog' = NoLog
  /\ UNCHANGED <<uid, watchers, subs, target, targetStack, stack, schedVars,
                 hist, shouldObserve, production, async, elog, vmWatchers, vms, factory>>

\* toggleObserving(value)
toggleObserving(value) ==
  /\ UserTop
  /\ shouldObserve' = value
  /\ olog' = NoLog
  /\ UNCHANGED <<uid, watchers, subs, target, targetStack, stack, schedVars,
                 hist, objs, production, async, elog, vmWatchers, vms, factory>>

\* top-level code executes `obj[key] = val`
Assign(o, k, val) ==
  /\ UserTop
  /\ ObsCommit("assign", assign(OHeap(objs, subs), o, k, val))

\* top-level code calls set(target, key, val)
Set(o, k, val) ==
  /\ UserTop
  /\ ObsCommit("set", set(OHeap(objs, subs), o, k, val))

\* top-level code calls del(target, key)
Del(o, k) ==
  /\ UserTop
  /\ ObsCommit("del", del(OHeap(objs, subs), o, k))

\* the running code reads `obj[key]`: the reactiveGetter when the property
\* has one
Get(o, k) ==
  /\ UserCtx
  /\ objs[o].slots[k].has /\ objs[o].slots[k].dep # 0
  /\ LET H == reactiveGetter(Heap(watchers, subs), target, o, k)
     IN watchers' = H.ws /\ subs' = H.subs
  /\ UNCHANGED <<extVars, uid, stack, target, targetStack, schedVars, hist>>

\* the observer: wrapping and the writes to the properties of object 1 (the
\* object that is also used as root $data)
NextObs ==
  \/ \E o \in ObjIds : Observe(RefV(o), FALSE)
  \/ Observe(RefV(1), TRUE)
  \/ Unroot(1)
  \/ \E b \in BOOLEAN : toggleObserving(b)
  \/ \E k \in Keys, v \in StoreVals : Assign(1, k, v)
  \/ \E k \in Keys, v \in StoreVals : Set(1, k, v)
  \/ \E k \in Keys : Del(1, k)

\* the containers, the shouldObserve switch and the build as the program
\* may have set them up
InitObs ==
  /\ InitEngine
  /\ objs = ObjsInit
  /\ shouldObserve = TRUE
  /\ production \in BOOLEAN
  /\ async = TRUE
  /\ olog = NoLog
  /\ elog = NoErr
  /\ vmWatchers = <<>>
  /\ vms = VmsInit
  /\ factory = NewFactory

SpecObs == InitObs /\ [][NextObs]_vars

\* the observer with one sync watcher as the effect that reads the
\* properties of object 1
NextRead ==
  \/ \E o \in ObjIds : Observe(RefV(o), FALSE)
  \/ \E b \in BOOLEAN : toggleObserving(b)
  \/ \E v \in StoreVals : Assign(1, 1, v)
  \/ \E k \in Keys : Get(1, k)
  \/ uid = 0 /\ Construct(FALSE, TRUE)
  \/ NotifyStep
  \/ \E v \in Values : EndGet(v)

SpecRead == InitObs /\ [][NextRead]_vars

\* ------------------------------------------------------- specifications
\* getter errors: sync watchers, user ($watch) and not, whose getters read
\* and write cells and may throw
NextErr ==
  \/ Watch(TRUE)
  \/ Construct(FALSE, TRUE)
  \/ \E d \in DepIds : Read(d)
  \/ \E d \in DepIds : Write(d)
  \/ NotifyStep
  \/ \E v \in Values : EndGet(v)
  \/ Throw

SpecErr == Init /\ [][NextErr]_vars

\* teardown through unwatchFn: sync watchers that read and write cells
NextTear ==
  \/ Construct(FALSE, TRUE)
  \/ \E d \in DepIds : Read(d)
  \/ \E d \in DepIds : Write(d)
  \/ NotifyStep
  \/ \E w \in WIds : Unwatch(w)
  \/ \E v \in Values : EndGet(v)

SpecTear == Init /\ [][NextTear]_vars

\* dependency tracking: lazy (computed) and sync watchers, no scheduler
NextTrack ==
  \/ Construct(TRUE, FALSE)
  \/ Construct(FALSE, TRUE)
  \/ \E d \in DepIds : Read(d)
  \/ \E d \in DepIds : Write(d)
  \/ NotifyStep
  \/ \E w \in WIds : ReadComputed(w)
  \/ \E w \in WIds : Teardown(w)
  \/ \E v \in Values : EndGet(v)

SpecTrack == Init /\ [][NextTrack]_vars

\* scheduling: queued watchers (neither lazy nor sync), nextTick, the flush
NextSched ==
  \/ Construct(FALSE, FALSE)
  \/ \E d \in DepIds : Read(d)
  \/ \E d \in DepIds : Write(d)
  \/ NotifyStep
  \/ \E w \in WIds : ForceUpdate(w)
  \/ \E w \in WIds : Teardown(w)
  \/ \E v \in Values : EndGet(v)
  \/ FlushCallbacks
  \/ FlushStep
  \/ FlushEnd

SpecSched == Init /\ [][NextSched]_vars

\* -------------------------------------------------------- type invariant
TypeOK ==
  /\ uid \in 0..MaxWatchers
  /\ Len(watchers) = uid
  /\ \A d \in DepIds : Range(subs[d]) \subseteq 1..uid
  /\ Len(stack) <= MaxDepth
  /\ Range(queue) \subseteq 1..uid
  /\ has \subseteq 1..uid
  /\ timers \in 0..1
  /\ Len(callbacks) <= 1

\* ------------------------------------------------------------ properties
\* the cells whose Dep has watcher w in its subscriber list
SubsOf(w) == {d \in DepIds : w \in Range(subs[d])}
\* the same, in the state a step leads to
SubsOfNext(w) == {d \in DepIds : w \in Range(subs'[d])}

\* the position of the first run of watcher w in the current flush
FirstRun(w) == CHOOSE i \in 1..Len(hist.runLog) :
                 hist.runLog[i] = w /\ \A j \in 1..(i - 1) : hist.runLog[j] # w

\* s is in strictly increasing order
Increasing(s) == \A i, j \in 1..Len(s) : i < j => s[i] < s[j]

\* the flush loop has run to its end without the runaway check firing
FlushDone ==
  /\ flushing /\ ~running /\ stack = <<>>
  /\ index > Len(queue)
  /\ ~hist.tripped

\* the first position of the pending list that the flush has not yet reached
PendingFrom == IF running \/ hist.tripped THEN index + 1 ELSE index

\* update() is called on watcher w by this step
UpdateCalled(w) ==
  \/ /\ NotifyStep
     /\ Last(stack).subs[Last(stack).i] = w
  \/ ForceUpdate(w)

\* C1: whenever an evaluation (Watcher.get) of a watcher returns, the watcher is
\* in the subscriber list of exactly the cells it read during that evaluation,
\* and its deps list holds exactly those cells.
C1_SubscribedExactlyToReads ==
  [][\A v \in Values :
       EndGet(v) =>
         LET w == Last(stack).w
         IN /\ SubsOfNext(w) = Last(stack).reads
            /\ Range(watchers'[w].deps) = Last(stack).reads]_vars

\* C2: in every reachable state a watcher appears at most once in the
\* subscriber list of any Dep.
C2_AtMostOnceInSubs ==
  \A d \in DepIds : \A w \in WIds : Count(subs[d], w) <= 1

\* C2 witness: during a re-evaluation a watcher has read again a cell it was
\* subscribed to since its previous evaluation, and is in that list once.
C2_Witness ==
  \E w \in 1..uid : \E d \in DepIds :
    /\ d \in watchers[w].depIds
    /\ d \in watchers[w].newDepIds
    /\ Count(subs[d], w) = 1

\* C3: update() on a watcher that has been torn down changes nothing: none of
\* the watcher's fields (value, dirty), no evaluation is started, no
\* subscription changes and nothing reaches the scheduler or nextTick.
C3_UpdateAfterTeardownNoOp ==
  [][\A w \in 1..uid :
       (~watchers[w].active /\ UpdateCalled(w)) =>
         /\ watchers'[w] = watchers[w]
         /\ UNCHANGED <<subs, target, targetStack, queue, has, waiting,
                        callbacks, pending, timers>>]_vars

\* C4: in every reachable state a watcher that has been torn down is in no
\* Dep's subscriber list.
C4_TornDownNeverSubscribed ==
  \A w \in 1..uid : ~watchers[w].active => SubsOf(w) = {}

\* C5: a queued watcher that got update() any number of times before the flush
\* is pending exactly once and has not been re-evaluated; unless it is
\* invalidated again during the flush, the flush runs it at most once, and
\* exactly once if it is still active when the flush has ended.
C5_Batching ==
  /\ ~flushing => \A w \in hist.upd : Count(queue, w) = 1
  /\ flushing =>
       \A w \in hist.upd \ hist.midq : Count(hist.runLog, w) <= 1
  /\ FlushDone =>
       \A w \in hist.upd \ hist.midq :
         watchers[w].active => Count(hist.runLog, w) = 1

\* C5 witness: a flush has ended in which a watcher that got update() more
\* than once before the flush was run exactly once.
C5_Witness ==
  /\ FlushDone
  /\ \E w \in hist.multi \ hist.midq :
       watchers[w].active /\ Count(hist.runLog, w) = 1

\* C6: of two watchers pending when the flush began, the one constructed later
\* is not run before the one constructed earlier has been run (or was found
\* torn down).
C6_Ordering ==
  \A p, c \in hist.upd :
    (p < c /\ c \in Range(hist.runLog)) =>
      \/ ~watchers[p].active
      \/ p \in Range(hist.runLog) /\ FirstRun(p) < FirstRun(c)

\* C6 witness: both watchers are subscribed to one cell, the later constructed
\* one first in the subscriber list (so it was notified and enqueued first),
\* and the flush has run the earlier constructed one first.
C6_Witness ==
  /\ flushing
  /\ hist.upd = {1, 2} /\ hist.midq = {}
  /\ hist.runLog = <<1, 2>>
  /\ watchers[1].active /\ watchers[2].active
  /\ \E d \in DepIds : subs[d] = <<2, 1>>

\* C7 as stated: within one flush the watchers are run in strictly increasing
\* id order, whatever is enqueued during the flush.
C7_StrictlyIncreasing == Increasing(hist.runLog)

\* C7: within one flush the watchers are run in strictly increasing id order as
\* long as no watcher is enqueued during the flush whose id is not above that
\* of the watcher being run, and the part of the pending list behind the
\* cursor is in strictly increasing id order at all times.
C7_IncreasingUnlessLowInsert ==
  /\ ~hist.lowInsert => Increasing(hist.runLog)
  /\ flushing => Increasing(SubSeq(queue, PendingFrom, Len(queue)))

\* C7 witness: a watcher enqueued during the flush, with an id above that of
\* the running watcher, has been run after it.
C7_Witness ==
  /\ flushing /\ ~hist.lowInsert
  /\ \E w \in hist.midq :
       /\ w \in Range(hist.runLog)
       /\ Len(hist.runLog) >= 2
       /\ FirstRun(w) > 1

\* C8: while a flush that the runaway check has not broken off is in progress,
\* every active watcher that got update() during the flush and has not been
\* run since is in the pending list behind the cursor; when the flush has run
\* to its end none is left.
C8_RunInSameFlush ==
  /\ (flushing /\ ~hist.tripped) =>
       \A w \in hist.owed :
         watchers[w].active =>
           \E i \in PendingFrom..Len(queue) : queue[i] = w
  /\ FlushDone => \A w \in hist.owed : ~watchers[w].active

\* C8 witness: a flush has run to its end in which an active watcher was
\* enqueued during the flush and has been run after that.
C8_Witness ==
  /\ FlushDone
  /\ \E w \in hist.midq :
       /\ watchers[w].active
       /\ w \notin hist.owed
       /\ Count(hist.runLog, w) = IF w \in hist.upd THEN 2 ELSE 1

\* C9: no watcher is run more than MAX_UPDATE_COUNT + 2 times in one flush; when
\* the runaway check fires it is for the watcher just run, nothing is
\* executing any more, and the only step from there ends the flush and drops
\* the pending list.
C9_RunawayEndsFlush ==
  [][/\ \A w \in WIds : Count(hist'.runLog, w) <= MAX_UPDATE_COUNT + 2
     /\ hist'.tripped =>
          /\ flushing' /\ ~running' /\ stack' = <<>>
          /\ index' \in 1..Len(queue')
          /\ circular'[queue'[index']] > MAX_UPDATE_COUNT
     /\ hist.tripped =>
          /\ ~flushing' /\ ~waiting'
          /\ queue' = <<>> /\ has' = {}]_vars

\* C9 witness: the runaway check has fired while watchers were still pending
\* behind the cursor.
C9_Witness ==
  /\ hist.tripped
  /\ index < Len(queue)
  /\ Len(hist.runLog) >= MAX_UPDATE_COUNT + 1

IsAccessor(o, k) == objs[o].slots[k].has /\ objs[o].slots[k].dep # 0

\* newVal and value pass the reactiveSetter's early-return test as the claim
\* words it: reference-equal, or both NaN
SameValue(newVal, value) ==
  \/ (newVal.t # "nan" /\ newVal = value)
  \/ (newVal.t = "nan" /\ value.t = "nan")

\* C11: writing an accessor property with a value === its current value, or
\* NaN over NaN, changes nothing: the stored value and childOb (and every
\* other part of the containers and of the Deps) stay, and notify() is not
\* called on the property's Dep.
C11_SetterNoOp ==
  [][\A k \in Keys, v \in StoreVals :
       (IsAccessor(1, k) /\ SameValue(v, objs[1].slots[k].val) /\ Assign(1, k, v))
         => /\ objs' = objs
            /\ subs' = subs
            /\ stack' = stack
            /\ olog'.notified = <<>>]_vars

\* C11 witness: NaN has been written over the NaN held by accessor property 1
\* (property 2 is absent, so the write was to property 1; nothing was
\* notified, so the setter returned early).
C11_Witness ==
  /\ olog.op = "assign"
  /\ olog.notified = <<>>
  /\ ~objs[1].slots[2].has
  /\ IsAccessor(1, 1)
  /\ objs[1].slots[1].val = NaNV

\* C12 as stated: del(obj, key) on a plain object without __ob__ leaves the
\* object (key set and values) unchanged, notifies no Dep and reports nothing.
C12_DelUnwrappedNoOp ==
  [][\A k \in Keys :
       (objs[1].ob = 0 /\ Del(1, k))
         => /\ objs' = objs
            /\ subs' = subs
            /\ olog'.notified = <<>>
            /\ ~olog'.warned]_vars

\* C12 amended: del(obj, key) on a plain object without __ob__ removes key
\* when it is an own property and changes nothing otherwise; in both cases
\* no Dep is notified, nothing is reported and no other property changes.
C12_DelUnwrappedRemovesOwnKey ==
  [][\A k \in Keys :
       (objs[1].ob = 0 /\ Del(1, k))
         => /\ objs' = [objs EXCEPT ![1].slots[k] = NoSlot]
            /\ subs' = subs
            /\ stack' = stack
            /\ olog'.notified = <<>>
            /\ ~olog'.warned]_vars

\* C12 witness: del has removed own property 1 of object 1, which never had
\* an __ob__ (property 1 exists from the start and only del removes keys).
C12_Witness ==
  /\ olog.op = "del"
  /\ objs[1].ob = 0
  /\ ~objs[1].slots[1].has
  /\ olog.notified = <<>>

\* object o carries an Observer and is not the root $data of any vm
WrappedNonRoot(o) == objs[o].ob # 0 /\ objs[o].vmCount = 0

\* C13: del(target, key) on a wrapped, non-root object: an own key is removed
\* (nothing else changes) and notify() is called exactly once, on the
\* Observer's Dep; for a key that is not an own property nothing changes and
\* nothing is notified.
C13_DelWrapped ==
  [][\A k \in Keys :
       (WrappedNonRoot(1) /\ Del(1, k))
         => /\ subs' = subs
            /\ ~olog'.warned
            /\ IF objs[1].slots[k].has
               THEN /\ objs' = [objs EXCEPT ![1].slots[k] = NoSlot]
                    /\ olog'.notified = <<objs[1].ob>>
               ELSE /\ objs' = objs
                    /\ olog'.notified = <<>>]_vars

\* C13 witness: del has removed a converted property of the wrapped, non-root
\* object 1 and has notified the Observer's Dep.
C13_Witness ==
  /\ olog.op = "del"
  /\ WrappedNonRoot(1)
  /\ olog.notified = <<objs[1].ob>>
  /\ ~objs[1].slots[1].has

\* object o is the root $data of a vm: its Observer has vmCount > 0
RootOwned(o) == objs[o].ob # 0 /\ objs[o].vmCount > 0

\* a step that is set(o, k, v) with k not present, or del(o, k)
SetNewOrDel(o, k) ==
  \/ ~objs[o].slots[k].has /\ \E v \in StoreVals : Set(o, k, v)
  \/ Del(o, k)

\* C14 as stated: while vmCount > 0, set() with a key not already present
\* and del() with any key report a warning, leave the container's key set and
\* values unchanged and notify no Dep.
C14_RootOwnedWarns ==
  [][\A k \in Keys :
       (RootOwned(1) /\ SetNewOrDel(1, k))
         => /\ objs' = objs
            /\ subs' = subs
            /\ olog'.notified = <<>>
            /\ olog'.warned]_vars

\* C14 amended: while vmCount > 0, set() with a key not already present and
\* del() with any key leave the containers unchanged and notify no Dep; they
\* report a warning unless the build is a production build.
C14_RootOwnedRejects ==
  [][\A k \in Keys :
       (RootOwned(1) /\ SetNewOrDel(1, k))
         => /\ objs' = objs
            /\ subs' = subs
            /\ stack' = stack
            /\ olog'.notified = <<>>
            /\ olog'.warned = ~production]_vars

\* C14 witness: set() with a new key has been rejected with a warning on the
\* root $data object, which still lacks the key.
C14_Witness ==
  /\ olog.op = "set"
  /\ olog.warned
  /\ RootOwned(1)
  /\ \E k \in Keys : ~objs[1].slots[k].has

\* C15: set(target, key, value) with a key not present: on a wrapped,
\* non-root object a reactive accessor for key holding value (with a Dep
\* of its own) is installed, no other property of the object changes and
\* notify() is called exactly once, on the Observer's Dep; on an object
\* without __ob__ value becomes a plain data property and nothing is
\* notified.
C15_SetNewKey ==
  [][\A k \in Keys, v \in StoreVals :
       (~objs[1].slots[k].has /\ ~RootOwned(1) /\ Set(1, k, v))
         => IF objs[1].ob # 0
            THEN /\ objs'[1].slots[k].has
                 /\ objs'[1].slots[k].val = v
                 /\ objs'[1].slots[k].dep \in (DOMAIN subs') \ (DOMAIN subs)
                 /\ objs'[1].slots[k].childOb = (IF v.t = "ref" THEN objs'[v.v].ob ELSE 0)
                 /\ \A j \in Keys \ {k} : objs'[1].slots[j] = objs[1].slots[j]
                 /\ objs'[1].ob = objs[1].ob
                 /\ olog'.notified = <<objs[1].ob>>
            ELSE /\ objs' = [objs EXCEPT ![1].slots[k] = DataSlot(v)]
                 /\ subs' = subs
                 /\ olog'.notified = <<>>]_vars

\* C15 witness: set() has added key 2 to the wrapped, non-root object 1 as a
\* converted property and has notified the Observer's Dep.
C15_Witness ==
  /\ olog.op = "set"
  /\ WrappedNonRoot(1)
  /\ olog.notified = <<objs[1].ob>>
  /\ IsAccessor(1, 2)

\* C16: wrapping is idempotent.  Whatever the steps in between (observation
\* switched off and on, writes, set, del), a container that has an Observer
\* keeps that Observer, and an observe() call on a container that already has
\* one returns it without converting a property or creating a Dep: nothing
\* changes but vmCount, which a call with asRootData increments.
C16_WrapIdempotent ==
  [][/\ \A o \in ObjIds : objs[o].ob # 0 => objs'[o].ob = objs[o].ob
     /\ \A o \in ObjIds :
          (objs[o].ob # 0 /\ olog'.op = "observe" /\ Observe(RefV(o), FALSE))
            => (objs' = objs /\ subs' = subs)
     /\ (objs[1].ob # 0 /\ olog'.op = "observe" /\ Observe(RefV(1), TRUE))
          => /\ objs' = [objs EXCEPT ![1].vmCount = @ + 1]
             /\ subs' = subs]_vars

\* C16 witness: every container has an Observer, observation is switched off
\* and the last operation was an observe() call: it was made on a container
\* that was already wrapped, after toggleObserving(false).
C16_Witness ==
  /\ olog.op = "observe"
  /\ ~shouldObserve
  /\ \A o \in ObjIds : objs[o].ob # 0

\* an edge from Dep d to the watcher that is Dep.target in the state before
\* the step: after the step the watcher has d among the Deps of the running
\* evaluation and is in d.subs
EdgeRecorded(d) ==
  /\ d \in Range(watchers'[target].newDeps)
  /\ target \in Range(subs'[d])

\* the Deps of the Observers of the wrapped elements of array o, through
\* nested arrays
RECURSIVE ElemObs(_)
ElemObs(o) ==
  UNION {IF e.t # "ref" THEN {}
         ELSE (IF objs[e.v].ob # 0 THEN {objs[e.v].ob} ELSE {})
                \cup (IF IsArray(e.v) THEN ElemObs(e.v) ELSE {})
         : e \in Range(ArrayItems(o))}

\* C20: reading a converted property while a watcher is Dep.target records an
\* edge from the property's Dep to that watcher and, if the value is a
\* container that has an Observer, from the Observer's Dep, and, if the value
\* is an array, from the Dep of the Observer of every wrapped element,
\* through nested arrays; a read while Dep.target is empty records no edge.
C20_ReadRecordsEdges ==
  [][\A k \in Keys :
       (IsAccessor(1, k) /\ Get(1, k))
         => LET val == objs[1].slots[k].val
            IN IF target = NoTarget
               THEN subs' = subs /\ watchers' = watchers
               ELSE /\ EdgeRecorded(objs[1].slots[k].dep)
                    /\ (val.t = "ref" /\ objs[val.v].ob # 0)
                         => /\ EdgeRecorded(objs[val.v].ob)
                            /\ IsArray(val.v)
                                 => \A d \in ElemObs(val.v) : EdgeRecorded(d)]_vars

\* C18: teardown() is idempotent: a teardown() of a watcher that has been
\* torn down before changes nothing: no Dep's subscriber list, not
\* vm._watchers, not the active flag nor any other field of any watcher.
C18_TeardownIdempotent ==
  [][\A w \in 1..uid :
       (~watchers[w].active /\ Unwatch(w))
         => UNCHANGED <<watchers, subs, vmWatchers, uid, stack, target,
                        targetStack, schedVars>>]_vars

\* C18 witness: teardown() has been called on a watcher that was inactive,
\* while that watcher (torn down during its own evaluation) was still in the
\* subscriber list of a Dep.
C18_Witness ==
  /\ olog.op = "unwatch again"
  /\ \E w \in 1..uid : ~watchers[w].active /\ SubsOf(w) # {}

\* the scheduler is at rest: no flush in progress and none scheduled
AtRest == ~flushing /\ ~waiting

\* C19: the scheduler queue is empty at rest.  When a flush has ended (and
\* whenever no flush is in progress or scheduled) the pending list and the
\* membership set are empty, the flushing flag and the cursor are reset and
\* no callback is left for the next tick; and update() on an active queued
\* watcher is then accepted: the watcher becomes the one pending entry and a
\* flush is scheduled through nextTick.
C19_EmptyAtRest ==
  /\ [](/\ hist.afterFlush = "ended" => AtRest
        /\ AtRest => (queue = <<>> /\ has = {} /\ callbacks = <<>> /\ ~pending)
        /\ ~flushing => index = 0)
  /\ [][\A w \in 1..uid :
          (AtRest /\ watchers[w].active /\ ~watchers[w].lazy /\ ~watchers[w].sync
             /\ UpdateCalled(w))
            => /\ queue' = <<w>>
               /\ has' = {w}
               /\ waiting' /\ ~flushing'
               /\ callbacks' = <<"flushSchedulerQueue">>
               /\ pending'
               /\ timers' = timers + 1]_vars

\* C19 witness: after a flush has ended, update() on an active watcher has
\* been accepted and a new flush is scheduled.
C19_Witness ==
  /\ hist.afterFlush = "requeued"
  /\ ~flushing /\ waiting
  /\ timers = 1
  /\ \E w \in 1..uid : watchers[w].active /\ queue = <<w>> /\ has = {w}

\* C17: an exception thrown by a watcher's getter during get().  For a
\* watcher that is not a user watcher it is rethrown: nothing is reported,
\* get() returns no value (the watcher's value stays as it was) and the
\* exception leaves the notify loops that called it.  For a user watcher it
\* is caught and reported and get() returns undefined to its caller (the
\* constructor or run() stores undefined), and the failure does not keep
\* other watchers from being run: every notify loop under way keeps its
\* place and its remaining subscribers.
C17_ComputationErrors ==
  [][Throw =>
       LET f == Last(stack)
           w == f.w
       IN IF watchers[w].user
          THEN /\ elog' = [w |-> w, reported |-> TRUE, thrown |-> FALSE]
               /\ f.cont \in {"ctor", "run"} => watchers'[w].value = Undefined
               /\ \A i \in 1..(Len(stack) - 1) :
                    (stack[i].kind = "notify" /\ stack[i].i <= Len(stack[i].subs))
                      => (i <= Len(stack') /\ stack'[i] = stack[i])
          ELSE /\ elog' = [w |-> w, reported |-> FALSE, thrown |-> TRUE]
               /\ watchers'[w].value = watchers[w].value
               /\ stack' = Unwind(Front(stack))]_vars

\* C17 witness: Dep.notify is going through the subscribers <<1, 2>>; the
\* getter of user watcher 1 threw in its run (its value is undefined, the
\* error was reported) and watcher 2 is being run after it.
C17_Witness ==
  /\ uid = 2
  /\ watchers[1].user
  /\ watchers[1].value = Undefined
  /\ elog = [w |-> 1, reported |-> TRUE, thrown |-> FALSE]
  /\ Len(stack) = 2
  /\ stack[1].kind = "notify" /\ stack[1].subs = <<1, 2>>
  /\ stack[2].kind = "get" /\ stack[2].w = 2 /\ stack[2].cont = "run"

\* C21: Dep.notify() works on a snapshot.  Each step of its loop calls
\* update() on the next watcher of the list as it was when notify() started,
\* whether or not that watcher is still in the Dep's subscriber list and
\* whatever has been subscribed since; and a notify() under way keeps its
\* snapshot and moves on by one subscriber at a time until it has called
\* update() on the last one (no getter throws here).
C21_NotifySnapshot ==
  [][/\ NotifyStep =>
          LET f == Last(stack)
          IN /\ f.i <= Len(f.subs)
             /\ update(f.subs[f.i], [stack EXCEPT ![Len(stack)].i = @ + 1])
     /\ \A k \in 1..Len(stack) :
          stack[k].kind = "notify" =>
            IF k <= Len(stack')
            THEN /\ stack'[k].kind = "notify"
                 /\ stack'[k].d = stack[k].d
                 /\ stack'[k].subs = stack[k].subs
                 /\ stack'[k].i \in {stack[k].i, stack[k].i + 1}
            ELSE /\ Len(stack') = k - 1
                 /\ \/ stack[k].i > Len(stack[k].subs)
                    \/ (stack[k].i = Len(stack[k].subs) /\ k = Len(stack)
                          /\ NotifyStep)]_vars

\* C21 witness: notify() took the snapshot <<1, 2>> and has called update()
\* on watcher 1, whose run has returned; during that run watcher 2 was torn
\* down and removed from the Dep's subscriber list; update() on watcher 2
\* is the next step of the loop.
C21_Witness ==
  /\ stack # <<>>
  /\ LET f == Last(stack)
     IN /\ f.kind = "notify"
        /\ f.subs = <<1, 2>>
        /\ f.i = 2
        /\ ~watchers[2].active
        /\ 2 \notin Range(subs[f.d])

\* the Observer (its Dep) of value v in the state after the step, 0 for none
ObOfNext(v) == IF v.t = "ref" THEN objs'[v.v].ob ELSE 0

\* the property of object 1 whose Dep is d
SlotOfDep(d) == CHOOSE k \in Keys : IsAccessor(1, k) /\ objs[1].slots[k].dep = d

PropsObj == 2

\* the loop of initProps over the keys ks of propsOptions; vals[k] is what
\* validateProp returns for key k
RECURSIVE initPropsLoop(_, _, _, _)
initPropsLoop(OH, isRoot, ks, vals) ==
  IF ks = <<>> THEN OH
  ELSE initPropsLoop(
         defineReactive(OH, PropsObj, Head(ks), vals[Head(ks)],
                        IF production THEN "none"
                        ELSE IF isRoot THEN "rootProp" ELSE "prop"),
         isRoot, Tail(ks), vals)

\* initProps(vm, propsOptions): `if (!isRoot) toggleObserving(false)`, the
\* loop, `toggleObserving(true)`
initProps(OH, isRoot, vals) ==
  LET H1 == IF ~isRoot THEN [OH EXCEPT !.so = FALSE] ELSE OH
      H2 == initPropsLoop(H1, isRoot, Ascending(Keys), vals)
  IN [H2 EXCEPT !.so = TRUE]

\* the loop of updateChildComponent over vm.$options._propKeys:
\* `props[key] = validateProp(key, propOptions, propsData, vm)`
RECURSIVE updatePropsLoop(_, _, _)
updatePropsLoop(OH, ks, vals) ==
  IF ks = <<>> THEN OH
  ELSE updatePropsLoop(assign(OH, PropsObj, Head(ks), vals[Head(ks)]),
                       Tail(ks), vals)

\* updateChildComponent, the update of the props: isUpdatingChildComponent
\* is true from its first statement to its last in a development build
updateChildComponent(OH, vals) ==
  LET H1 == [OH EXCEPT !.updating = ~production, !.so = FALSE]
      H2 == updatePropsLoop(H1, Ascending(Keys), vals)
  IN [H2 EXCEPT !.so = TRUE, !.updating = FALSE]

\* initState calls initProps for an instance whose options declare every key
InitProps(isRoot, vals) ==
  /\ UserTop
  /\ \A k \in Keys : ~objs[PropsObj].slots[k].has
  /\ ObsCommit(IF isRoot THEN "initProps root" ELSE "initProps",
               initProps(OHeap(objs, subs), isRoot, vals))

\* the parent re-renders: prepatch calls updateChildComponent with propsData
UpdateChildComponent(vals) ==
  /\ UserTop
  /\ \A k \in Keys : objs[PropsObj].slots[k].dep # 0
  /\ ObsCommit("updateChildComponent",
               updateChildComponent(OHeap(objs, subs), vals))

\* the props of one instance: the values come from validateProp (not part of
\* the source) and are containers that other code may have wrapped or not
NextProps ==
  \/ \E o \in ObjIds \ {PropsObj} : Observe(RefV(o), FALSE)
  \/ \E b \in BOOLEAN : toggleObserving(b)
  \/ \E r \in BOOLEAN, vals \in [Keys -> StoreVals] : InitProps(r, vals)
  \/ \E vals \in [Keys -> StoreVals] : UpdateChildComponent(vals)
  \/ \E k \in Keys, v \in StoreVals : Assign(PropsObj, k, v)

SpecProps == InitObs /\ [][NextProps]_vars

NextUpd ==
  \/ \E lz \in BOOLEAN, sy \in BOOLEAN : Construct(lz, sy)
  \/ Read(1)
  \/ UserTop /\ Write(1)
  \/ NotifyStep
  \/ \E w \in WIds : UserTop /\ ReadComputed(w)
  \/ \E v \in Values : EndGet(v)
  \/ FlushCallbacks
  \/ FlushStep
  \/ FlushEnd

SpecUpd == Init /\ [][NextUpd]_vars

\* ---------------------------------------------------------------- C25
\* C25: update() tests lazy first, then sync.  For a lazy watcher (sync or
\* not) it sets dirty and does nothing else: no get() is started and the
\* scheduler's queue is not touched.  For a watcher that is not lazy but sync
\* it calls run(): the get() of an active watcher is started inside update(),
\* with the notify loop that called update() still on the call stack, and the
\* queue is not touched.  For any other watcher it calls queueWatcher: the
\* watcher is in the queue afterwards and no get() is started; such a
\* watcher's run() is only ever started by the flush.
C25_UpdateDispatch ==
  /\ [][NotifyStep
          => LET f == Last(stack)
                 w == loopSubs(f)[f.i]
                 st == [stack EXCEPT ![Len(stack)].i = @ + 1]
             IN IF watchers[w].lazy
                THEN /\ watchers' = [watchers EXCEPT ![w].dirty = TRUE]
                     /\ stack' = Settle(st)
                     /\ UNCHANGED <<subs, target, targetStack, schedVars>>
                ELSE IF watchers[w].sync
                THEN /\ UNCHANGED <<watchers, subs, schedVars>>
                     /\ IF watchers[w].active
                        THEN /\ Len(stack') = Len(stack) + 1
                             /\ SubSeq(stack', 1, Len(stack)) = st
                             /\ Last(stack').kind = "get"
                             /\ Last(stack').w = w
                             /\ Last(stack').cont = "run"
                             /\ target' = w
                        ELSE /\ stack' = Settle(st)
                             /\ UNCHANGED <<target, targetStack>>
                ELSE /\ w \in has'
                     /\ w \in Range(queue')
                     /\ (w \notin has) => (queue' # queue)
                     /\ stack' = Settle(st)
                     /\ UNCHANGED <<watchers, subs, target, targetStack>>]_vars
  /\ [](\A k \in 1..Len(stack) :
          (stack[k].kind = "get" /\ stack[k].cont = "run")
            => /\ ~watchers[stack[k].w].lazy
               /\ ~watchers[stack[k].w].sync
                    => (flushing /\ running /\ k = 1))

\* C25 witness: watcher 1 is lazy and sync; it has been evaluated (it
\* subscribed to cell 1) and then update() was called on it by a notify that
\* has ended: it is dirty, nothing is being evaluated, the queue is empty.
C25_Witness ==
  /\ uid >= 1
  /\ watchers[1].lazy /\ watchers[1].sync
  /\ 1 \in Range(subs[1])
  /\ watchers[1].dirty
  /\ stack = <<>>
  /\ queue = <<>>

\* ---------------------------------------------------------------- run()
\* the values that the getters return here: two primitives and an object
RunValues == 0..FirstObject

\* sync watchers created by $watch (deep or not) and by new Watcher, which
\* read one cell; top-level code writes the cell, and the getters return
\* primitives or an object
NextRun ==
  \/ Watch(TRUE)
  \/ WatchDeep(TRUE)
  \/ Construct(FALSE, TRUE)
  \/ Read(1)
  \/ UserTop /\ Write(1)
  \/ NotifyStep
  \/ \E v \in RunValues : EndGet(v)

SpecRun == Init /\ [][NextRun]_vars

\* ---------------------------------------------------------------- C26
\* C26: when the get() that run() made on an active watcher returns value,
\* the callback is called, with (value, the value stored before), and the
\* stored value becomes value, if value is not the stored value, or value is
\* an object or array, or the watcher is deep; otherwise the callback is not
\* called and the stored value stays.
C26_RunFires ==
  [][\A v \in RunValues :
       (InGetter /\ Last(stack).cont = "run" /\ EndGet(v))
         => LET w == Last(stack).w
                wt == watchers[w]
            IN /\ wt.active
               /\ IF v # wt.value \/ v = FirstObject \/ wt.deep
                  THEN /\ hist'.cb = <<w, v, wt.value>>
                       /\ watchers'[w].value = v
                  ELSE /\ hist'.cb = <<>>
                       /\ watchers'[w].value = wt.value]_vars

\* C26 witness: the run() of watcher 1, which is not deep, got the object it
\* already held and called the callback with it as new and as old value.
C26_Witness ==
  /\ uid >= 1
  /\ ~watchers[1].deep
  /\ hist.cb = <<1, FirstObject, FirstObject>>
  /\ watchers[1].value = FirstObject

\* ------------------------------------------------- computed inside effect
\* Dep.target is a lazy watcher: the getter of a computed property runs
InLazyGetter == target # NoTarget /\ watchers[target].lazy

\* one computed property (watcher 1), whose getter reads cells, and one sync
\* watcher (watcher 2), whose getter reads the computed property and nothing
\* else and may write cells; top-level code writes cells and reads the
\* computed property
NextLazy ==
  \/ uid = 0 /\ Construct(TRUE, FALSE)
  \/ uid = 1 /\ Construct(FALSE, TRUE)
  \/ \E d \in DepIds : InLazyGetter /\ Read(d)
  \/ \E d \in DepIds : Write(d)
  \/ NotifyStep
  \/ ReadComputed(1)
  \/ \E v \in Values : EndGet(v)

SpecLazy == Init /\ [][NextLazy]_vars

\* ---------------------------------------------------------------- C27
\* C27: when the computed property is read while the sync watcher is
\* Dep.target, watcher.depend() gives the sync watcher every Dep in the
\* computed watcher's deps; and when the sync watcher's evaluation ends, it
\* is subscribed to every Dep that came to it that way (its getter reads
\* nothing else, so these are the Deps noted in its frame), so that a write to
\* any of them calls update() on it as on the computed watcher.
C27_OuterSubscribedToDerivedDeps ==
  /\ [][(target = 2 /\ ~watchers[1].dirty /\ ReadComputed(1))
          => Range(watchers[1].deps) \subseteq watchers'[2].newDepIds]_vars
  /\ [][\A v \in Values :
          (InGetter /\ Last(stack).w = 2 /\ EndGet(v))
            => /\ Last(stack).reads \subseteq SubsOfNext(2)
               /\ Last(stack).reads \subseteq Range(watchers'[2].deps)]_vars

\* ------------------------------------------------------ inherited keys
\* object 1 with any inheritance under its keys; it is wrapped, and written
\* and extended by plain assignment and by set().  set() is not called for an
\* accessor property whose name is one of Object.prototype (defineReactive
\* over an existing accessor).
InitSet ==
  /\ InitEngine
  /\ \E p \in [Keys -> ProtoKinds] : objs = [ObjsInit EXCEPT ![1].proto = p]
  /\ shouldObserve = TRUE
  /\ production \in BOOLEAN
  /\ async = TRUE
  /\ olog = NoLog
  /\ elog = NoErr
  /\ vmWatchers = <<>>
  /\ vms = VmsInit
  /\ factory = NewFactory

NextSet ==
  \/ Observe(RefV(1), FALSE)
  \/ \E k \in Keys, v \in StoreVals : Assign(1, k, v)
  \/ \E k \in Keys, v \in StoreVals :
       /\ ~(IsAccessor(1, k) /\ keyInObjectPrototype(objs[1], k))
       /\ Set(1, k, v)

SpecSet == InitSet /\ [][NextSet]_vars

\* ---------------------------------------------------------------- C28
\* C28: set(target, key, val) does what the assignment target[key] = val
\* does exactly when key is an own property of target; for a key that is not
\* an own property (absent or only inherited) of a wrapped non-root target it
\* defines a reactive property with a Dep of its own holding val and calls
\* notify() once, on the Observer's Dep.
C28_SetDirectIffOwn ==
  [][\A k \in Keys, v \in StoreVals :
       (olog'.op = "set" /\ ~RootOwned(1) /\ Set(1, k, v))
         => IF objs[1].slots[k].has
            THEN LET H == assign(OHeap(objs, subs), 1, k, v)
                 IN /\ objs' = H.objs
                    /\ subs' = H.subs
                    /\ olog'.notified = H.notified
            ELSE objs[1].ob # 0
                   => /\ IsAccessor(1, k)'
                      /\ objs'[1].slots[k].val = v
                      /\ objs'[1].slots[k].dep \in (DOMAIN subs') \ (DOMAIN subs)
                      /\ olog'.notified = <<objs[1].ob>>]_vars

\* ------------------------------------------------------- notify order
\* either build, with config.async set or not
InitNotify ==
  /\ InitEngine
  /\ objs = ObjsInit
  /\ shouldObserve = TRUE
  /\ production \in BOOLEAN
  /\ async \in BOOLEAN
  /\ olog = NoLog
  /\ elog = NoErr
  /\ vmWatchers = <<>>
  /\ vms = VmsInit
  /\ factory = NewFactory

\* sync watchers that read and write cells: a watcher that is run again may
\* subscribe to a cell after a watcher with a greater id has
NextNotify ==
  \/ Construct(FALSE, TRUE)
  \/ \E d \in DepIds : Read(d)
  \/ \E d \in DepIds : Write(d)
  \/ NotifyStep
  \/ \E v \in Values : EndGet(v)

SpecNotify == InitNotify /\ [][NextNotify]_vars

\* ---------------------------------------------------------------- C29
\* C29: notify() goes through the subscribers it found in subs, each once:
\* in ascending order of watcher id when the build is not the production
\* build and config.async is false (the mode in which watchers are not run
\* through the asynchronous scheduler), whatever the order in subs; and in the
\* order of subs otherwise.  update() is called on them in the order of that
\* list.
C29_NotifyOrder ==
  /\ [][\A d \in DepIds :
          Write(d)
            => LET f == Last(stack')
               IN /\ f.kind = "notify" /\ f.d = d /\ f.i = 1
                  /\ Len(f.subs) = Len(subs[d])
                  /\ Range(f.subs) = Range(subs[d])
                  /\ IF ~production /\ ~async
                     THEN \A i, j \in 1..Len(f.subs) :
                            i < j => f.subs[i] < f.subs[j]
                     ELSE f.subs = subs[d]]_vars
  /\ [][NotifyStep
          => LET f == Last(stack)
                 w == f.subs[f.i]
             IN /\ watchers[w].active
                  => /\ Last(stack').kind = "get"
                     /\ Last(stack').w = w
                     /\ stack'[Len(stack)].i = f.i + 1
                     /\ stack'[Len(stack)].subs = f.subs]_vars

\* C29 witness: in a development build with config.async false, watcher 2
\* subscribed to cell 1 before watcher 1 did; a notify() of cell 1 has called
\* update() on watcher 1 first, and watcher 1 is being run.
C29_Witness ==
  /\ ~production /\ ~async
  /\ subs[1] = <<2, 1>>
  /\ Len(stack) = 2
  /\ stack[1].kind = "notify" /\ stack[1].d = 1
  /\ stack[1].subs = <<1, 2>>
  /\ stack[1].i = 2
  /\ stack[2].kind = "get" /\ stack[2].w = 1 /\ stack[2].cont = "run"

\* ------------------------------------------------------------ next-tick
\* The callbacks that code registers with Vue.nextTick / vm.$nextTick are
\* named by the numbers 1, 2, ... in the order of their registration
\* (hist.registered is the last number given out).  hist.ran lists the
\* callbacks run so far, hist.reported the ones whose exception went to
\* handleError, hist.lost the ones that a flushCallbacks left unrun.
MaxCallbacks == 5

\* a flushCallbacks that does not empty the callbacks array
callbacksAfterCopy_kept(cbs) == cbs

\* flushCallbacks: `callbacks.length = 0` after `copies = callbacks.slice(0)`
callbacksAfterCopy(cbs) == <<>>

\* a nextTick whose wrapper has no try / catch
wrapperCatches_never == FALSE

\* nextTick's wrapper: `try { cb.call(ctx) } catch (e) { handleError(...) }`;
\* handleError reports the error and returns
wrapperCatches == TRUE

\* the frame of flushCallbacks on the call stack: copies and the loop index
CallbacksFrame(copies) ==
  [kind |-> "flushCallbacks", w |-> 0, cont |-> "", d |-> 0, subs |-> copies,
   i |-> 1, reads |-> {}, target0 |-> NoTarget, depth0 |-> 0]

InCallbacks == stack # <<>> /\ Last(stack).kind = "flushCallbacks"

\* top-level code calls nextTick(cb)
NextTick ==
  /\ UserTop
  /\ hist.registered < MaxCallbacks
  /\ nextTick(hist.registered + 1)
  /\ hist' = [hist EXCEPT !.registered = @ + 1]
  /\ UNCHANGED <<extVars, uid, watchers, subs, target, targetStack, stack,
                 queue, has, flushing, waiting, index, running, circular>>

\* the microtask runs flushCallbacks up to its loop
FlushCallbacksStart ==
  /\ timers > 0
  /\ stack = <<>>
  /\ ~flushing
  /\ timers' = timers - 1
  /\ pending' = FALSE
  /\ callbacks' = callbacksAfterCopy(callbacks)
  /\ stack' = IF callbacks = <<>> THEN <<>> ELSE <<CallbacksFrame(callbacks)>>
  /\ UNCHANGED <<extVars, uid, watchers, subs, target, targetStack, queue, has,
                 flushing, waiting, index, running, circular, hist>>

\* flushCallbacks calls copies[i](): the callback may call nextTick (again)
\* and may throw (throws)
RunCallback(again, throws) ==
  /\ InCallbacks
  /\ LET f == Last(stack)
         c == f.subs[f.i]
         more == f.i < Len(f.subs)
         escapes == throws /\ ~wrapperCatches
     IN /\ IF again /\ hist.registered < MaxCallbacks
           THEN nextTick(hist.registered + 1)
           ELSE UNCHANGED <<callbacks, pending, timers>>
        /\ hist' = [hist EXCEPT
                      !.registered = IF again /\ @ < MaxCallbacks
                                     THEN @ + 1 ELSE @,
                      !.ran = Append(@, c),
                      !.reported = IF throws /\ wrapperCatches
                                   THEN @ \cup {c} ELSE @,
                      !.lost = IF escapes
                               THEN @ \cup Range(SubSeq(f.subs, f.i + 1,
                                                        Len(f.subs)))
                               ELSE @]
        /\ stack' = IF more /\ ~escapes
                    THEN [stack EXCEPT ![Len(stack)].i = @ + 1]
                    ELSE Front(stack)
  /\ UNCHANGED <<extVars, uid, watchers, subs, target, targetStack, queue, has,
                 flushing, waiting, index, running, circular>>

NextTicks ==
  \/ NextTick
  \/ FlushCallbacksStart
  \/ \E again \in BOOLEAN, throws \in BOOLEAN : RunCallback(again, throws)

SpecTick == Init /\ [][NextTicks]_vars

\* ---------------------------------------------------------------- C31
\* C31: timerFunc is called once per burst: a nextTick() call made while a
\* flush is pending adds its callback and calls timerFunc no further time,
\* and one made while none is pending calls it once; at most one
\* flushCallbacks is ever outstanding, one is outstanding exactly while
\* pending is true, and the callbacks array is non-empty only then.
C31_OneFlushPerBurst ==
  /\ [](/\ timers \in 0..1
        /\ pending <=> (timers = 1)
        /\ callbacks # <<>> => (pending /\ timers = 1))
  /\ [][Len(callbacks') > Len(callbacks)
          => /\ callbacks' = Append(callbacks, hist.registered + 1)
             /\ timers' = IF pending THEN timers ELSE timers + 1
             /\ pending']_vars

\* C31 witness: three callbacks have been registered since the last flush
\* began and one flushCallbacks is outstanding.
C31_Witness ==
  /\ Len(callbacks) = 3
  /\ pending
  /\ timers = 1

\* the callbacks that the flushCallbacks in progress has still to run
RemainingCopies ==
  IF InCallbacks
  THEN SubSeq(Last(stack).subs, Last(stack).i, Len(Last(stack).subs))
  ELSE <<>>

\* ---------------------------------------------------------------- C32
\* C32: the callbacks are run in the order of their registration, each at
\* most once, and none is dropped: the callbacks run so far, the ones the
\* flushCallbacks in progress has still to run and the ones in the callbacks
\* array are, in this order, callbacks 1, 2, ... up to the last one
\* registered; a flushCallbacks is outstanding whenever the array is not
\* empty, and when none is outstanding or in progress every callback has been
\* run once.  A callback registered by a running callback goes to the array,
\* not to the copies being run.
C32_CallbacksOnceInOrder ==
  /\ [](hist.ran \o RemainingCopies \o callbacks
          = [n \in 1..hist.registered |-> n])
  /\ [](callbacks # <<>> => timers = 1)
  /\ []((timers = 0 /\ stack = <<>>)
          => hist.ran = [n \in 1..hist.registered |-> n])
  /\ [][\A again \in BOOLEAN, throws \in BOOLEAN :
          (InCallbacks /\ RunCallback(again, throws)
             /\ hist'.registered > hist.registered)
            => /\ hist'.registered \notin Range(Last(stack).subs)
               /\ callbacks' = Append(callbacks, hist'.registered)
               /\ timers' = 1]_vars

\* C32 witness: flushCallbacks is running the copies 1 and 2; callback 1 has
\* run and has registered callback 3, which is in the callbacks array with a
\* new flushCallbacks outstanding.
C32_Witness ==
  /\ InCallbacks
  /\ Last(stack).subs = <<1, 2>>
  /\ Last(stack).i = 2
  /\ hist.ran = <<1>>
  /\ callbacks = <<3>>
  /\ timers = 1

\* ---------------------------------------------------------------- C33
\* C33: a callback that throws does not end flushCallbacks: its exception is
\* caught by the wrapper and reported, the loop goes on with the next copy
\* (the frame is popped only after the last one), and no callback is ever
\* left unrun by a flushCallbacks.
C33_ErrorIsolation ==
  /\ [][\A again \in BOOLEAN :
          (InCallbacks /\ RunCallback(again, TRUE))
            => LET f == Last(stack)
               IN /\ f.subs[f.i] \in hist'.reported
                  /\ hist'.ran = Append(hist.ran, f.subs[f.i])
                  /\ IF f.i < Len(f.subs)
                     THEN stack' = [stack EXCEPT ![Len(stack)].i = f.i + 1]
                     ELSE stack' = Front(stack)]_vars
  /\ [](hist.lost = {})
  /\ [](hist.reported \subseteq Range(hist.ran))

\* C33 witness: callback 1 threw and was reported, and callback 2, registered
\* after it and copied by the same flushCallbacks, has run.
C33_Witness ==
  /\ hist.reported = {1}
  /\ hist.ran = <<1, 2>>
  /\ stack = <<>>
  /\ hist.registered = 2
  /\ timers = 0

\* ------------------------------------------------ hooks and data functions
\* a callHook / getData that pushes the watcher that is being evaluated
hookTarget_kept(tgt) == tgt

\* callHook and getData: `pushTarget()`, without an argument: Dep.target
\* becomes undefined
hookTarget(tgt) == NoTarget

\* the frame of callHook (its handlers) or getData (the data function);
\* target0 and depth0 as for a Watcher.get frame
HookFrame(name) ==
  [kind |-> "hook", w |-> 0, cont |-> name, d |-> 0, subs |-> <<>>, i |-> 0,
   reads |-> {}, target0 |-> target, depth0 |-> Len(targetStack)]

\* the running code (top-level code or a getter) reaches callHook(vm, hook)
\* or getData(data, vm): pushTarget(), then the handlers / the data function
CallHook(name) ==
  /\ UserTop \/ InGetter
  /\ Len(stack) < MaxDepth
  /\ stack' = Append(stack, HookFrame(name))
  /\ targetStack' = Append(targetStack, hookTarget(target))
  /\ target' = hookTarget(target)
  /\ UNCHANGED <<extVars, uid, watchers, subs, schedVars, hist>>

\* the handlers / the data function are done, by returning or by throwing
\* (invokeWithErrorHandling and getData's catch block handle the exception):
\* callHook's last statement / getData's finally block is popTarget()
EndHook ==
  /\ InHook
  /\ Last(stack).cont \in {"callHook", "getData"}
  /\ targetStack' = popTarget(targetStack)
  /\ target' = TargetOf(popTarget(targetStack))
  /\ stack' = Front(stack)
  /\ hist' = [hist EXCEPT !.hookReads =
                IF Last(stack).target0 # NoTarget THEN Last(stack).reads ELSE @]
  /\ UNCHANGED <<extVars, uid, watchers, subs, schedVars>>

\* a computed property (watcher 1) and a sync watcher (watcher 2); the
\* getters and top-level code read cells and the computed property and call
\* hooks and data functions, which read cells and the computed property;
\* top-level code writes cells
NextHook ==
  \/ uid = 0 /\ Construct(TRUE, FALSE)
  \/ uid = 1 /\ Construct(FALSE, TRUE)
  \/ \E d \in DepIds : Read(d)
  \/ \E d \in DepIds : UserTop /\ Write(d)
  \/ NotifyStep
  \/ ReadComputed(1)
  \/ \E name \in {"callHook", "getData"} : CallHook(name)
  \/ EndHook
  \/ \E v \in Values : EndGet(v)

SpecHook == Init /\ [][NextHook]_vars

\* the watchers whose evaluation was in progress when the outermost hook or
\* data function on the stack was called
RECURSIVE OutermostHook(_)
OutermostHook(st) ==
  IF st = <<>> THEN 0
  ELSE IF OutermostHook(Front(st)) # 0 THEN OutermostHook(Front(st))
  ELSE IF Last(st).kind = "hook" THEN Len(st) ELSE 0

SuspendedByHook ==
  IF OutermostHook(stack) = 0 THEN {}
  ELSE Range(SubSeq(targetStack, 1, stack[OutermostHook(stack)].depth0))
         \ {NoTarget}

NextStale ==
  \/ uid = 0 /\ Construct(TRUE, FALSE)
  \/ uid = 1 /\ Construct(FALSE, TRUE)
  \/ \E d \in DepIds : Read(d)
  \/ \E d \in DepIds : UserTop /\ Write(d)
  \/ NotifyStep
  \/ ReadComputed(1)
  \/ \E v \in Values : EndGet(v)

SpecStale == Init /\ [][NextStale]_vars

\* watcher w is a subscriber of a cell that has been written and whose
\* notify() has not called w.update() yet: for a lazy watcher that is not
\* dirty, watcher.value was computed from the value the cell had before
NotYetNotified(w) ==
  \E k \in 1..Len(stack) :
    /\ stack[k].kind = "notify"
    /\ w \in Range(SubSeq(loopSubs(stack[k]), stack[k].i, Len(loopSubs(stack[k]))))

\* ---------------------------------------------------------------- C35
\* C35: an effect that is re-evaluated because of a write to a cell and reads
\* a computed property that depends on that cell never gets the cached
\* value: computedGetter never returns watcher.value without evaluate()
\* while the computed watcher still awaits update() from that write.
C35_NoStaleDerivedValue ==
  [][\A w \in 1..uid :
       (watchers[w].lazy /\ ~watchers[w].dirty /\ InGetter /\ ReadComputed(w))
         => ~NotYetNotified(w)]_vars

\* ------------------------------------------------------------- $destroy
\* state.js initData of instance v with the plain object o as data:
\* `vm._data = data`, ..., `observe(data, true)`
InitData(v, o) ==
  /\ UserTop
  /\ vms[v].data = 0
  /\ ~vms[v].isBeingDestroyed
  /\ vms' = [vms EXCEPT ![v].data = o]
  /\ ObsEffects("initData", observe(OHeap(objs, subs), RefV(o), TRUE))

\* the frame of callHook(vm, 'beforeDestroy') in $destroy() of instance v
DestroyFrame(v) == [HookFrame("beforeDestroy") EXCEPT !.w = v]

\* $destroy: `callHook(vm, 'beforeDestroy')` comes before
\* `vm._isBeingDestroyed = true`
beingDestroyedAtHook == FALSE

\* the running code (top-level code, a getter, a hook handler) calls
\* vm.$destroy() on instance v: `if (vm._isBeingDestroyed) return`, else
\* callHook(vm, 'beforeDestroy'): pushTarget(), then the handlers
DestroyCall(v) ==
  /\ UserCtx
  /\ IF vms[v].isBeingDestroyed
     THEN /\ olog' = [op |-> "destroy again", notified |-> <<>>, warned |-> FALSE]
          /\ UNCHANGED <<stack, target, targetStack, vms>>
     ELSE /\ Len(stack) < MaxDepth
          /\ stack' = Append(stack, DestroyFrame(v))
          /\ targetStack' = Append(targetStack, hookTarget(target))
          /\ target' = hookTarget(target)
          /\ vms' = [vms EXCEPT ![v].isBeingDestroyed = beingDestroyedAtHook]
          /\ olog' = NoLog
  /\ UNCHANGED <<objs, shouldObserve, production, async, elog, vmWatchers, uid,
                 watchers, subs, schedVars, hist, factory>>

\* $destroy: `let i = vm._watchers.length; while (i--) vm._watchers[i].teardown()`
\* (vm._watcher, torn down first, is one of them)
RECURSIVE TeardownAll(_, _)
TeardownAll(H, list) ==
  IF list = <<>> THEN H
  ELSE TeardownAll(teardown(H, Last(list)), Front(list))

\* $destroy of instance v from the return of callHook(vm, 'beforeDestroy')
\* on: popTarget() (the end of callHook), _isBeingDestroyed = true, the
\* watchers' teardown, `if (vm._data.__ob__) vm._data.__ob__.vmCount--`,
\* _isDestroyed = true.  (The instance has no child components, and no
\* handlers for 'destroyed', under which a $destroy() returns at its first
\* test.)
DestroyRest(v) ==
  /\ InHook
  /\ Last(stack).cont = "beforeDestroy"
  /\ Last(stack).w = v
  /\ LET ts == popTarget(targetStack)
         H == TeardownAll(Heap(watchers, subs),
                          IF v = Owner THEN vmWatchers ELSE <<>>)
         o == vms[v].data
         hasOb == o # 0 /\ objs[o].ob # 0
     IN /\ targetStack' = ts
        /\ target' = TargetOf(ts)
        /\ watchers' = H.ws
        /\ subs' = H.subs
        /\ objs' = IF hasOb THEN [objs EXCEPT ![o].vmCount = @ - 1] ELSE objs
        /\ vms' = [vms EXCEPT ![v].isBeingDestroyed = TRUE,
                              ![v].isDestroyed = TRUE,
                              ![v].decs = IF hasOb THEN @ + 1 ELSE @,
                              ![v].done = @ + 1]
  /\ stack' = Front(stack)
  /\ olog' = [op |-> "destroy", notified |-> <<>>, warned |-> FALSE]
  /\ UNCHANGED <<shouldObserve, production, async, elog, vmWatchers, uid,
                 schedVars, hist, factory>>

\* two instances, which get one of the plain objects as data and are
\* destroyed, by top-level code or by a beforeDestroy handler; top-level
\* code also calls observe() on the objects
NextRoot ==
  \/ \E v \in VmIds, o \in PlainIds : InitData(v, o)
  \/ \E o \in PlainIds : Observe(RefV(o), FALSE)
  \/ \E v \in VmIds : DestroyCall(v)
  \/ \E v \in VmIds : DestroyRest(v)

SpecRoot == Init /\ [][NextRoot]_vars

\* an instance with a computed property (watcher 1) and a sync watcher from
\* $watch (watcher 2); getters, beforeDestroy handlers and top-level code
\* read cells and the computed property and call $destroy() and the
\* unwatchFn; top-level code writes cells
NextDestroy ==
  \/ uid = 0 /\ Construct(TRUE, FALSE)
  \/ uid = 1 /\ Watch(TRUE)
  \/ \E d \in DepIds : Read(d)
  \/ \E d \in DepIds : UserTop /\ Write(d)
  \/ NotifyStep
  \/ ReadComputed(1)
  \/ \E v \in Values : EndGet(v)
  \/ DestroyCall(Owner)
  \/ DestroyRest(Owner)
  \/ Unwatch(2)

SpecDestroy == Init /\ [][NextDestroy]_vars

\* the instances whose root data is container o, and the number of $destroy()
\* calls of those instances that have run to their end
RootedAt(o) == {v \in VmIds : vms[v].data = o}

RECURSIVE DestroysOf(_, _)
DestroysOf(o, n) ==
  IF n = 0 THEN 0
  ELSE DestroysOf(o, n - 1) + (IF vms[n].data = o THEN vms[n].done ELSE 0)

\* ---------------------------------------------------------------- C36
\* C36: for every container with an Observer, vmCount is never negative and
\* is the number of observe(container, true) calls (one per instance that
\* has it as data) minus the number of completed $destroy() calls of those
\* instances, and no instance decrements it more than once.
C36_RootOwnerCount ==
  /\ \A o \in PlainIds :
       objs[o].ob # 0
         => /\ objs[o].vmCount >= 0
            /\ objs[o].vmCount = Cardinality(RootedAt(o)) - DestroysOf(o, NumVms)
  /\ \A v \in VmIds : vms[v].decs <= 1

\* ---------------------------------------------------------------- C37
\* C37: when $destroy() returns, every watcher of the instance is inactive
\* and in no Dep's subscriber list; and when the unwatchFn of a watcher
\* returns, that watcher is inactive and in no Dep's subscriber list.
C37_DestroyedEffectsGone ==
  [][/\ DestroyRest(Owner)
          => \A w \in 1..uid :
               /\ ~watchers'[w].active
               /\ \A d \in DOMAIN subs' : w \notin Range(subs'[d])
     /\ \A w \in 1..uid :
          (olog'.op \in {"unwatch", "unwatch again"} /\ Unwatch(w))
            => /\ ~watchers'[w].active
               /\ \A d \in DOMAIN subs' : w \notin Range(subs'[d])]_vars

\* ------------------------------------------------------------ keep-alive
\* vm.$parent (0 for none) and vm.$children: instance 1 is the parent of
\* instance 2, which is the parent of instance 3
Parent(v) == v - 1
Children(v) == IF v < NumVms THEN <<v + 1>> ELSE <<>>

\* an isInInactiveTree that looks at the parent only
isInInactiveTree_parentOnly(V, v) ==
  Parent(v) # 0 /\ V[Parent(v)].inactive = "true"

\* lifecycle.js isInInactiveTree(vm): some ancestor has a true _inactive
RECURSIVE isInInactiveTree(_, _)
isInInactiveTree(V, v) ==
  /\ Parent(v) # 0
  /\ \/ V[Parent(v)].inactive = "true"
     \/ isInInactiveTree(V, Parent(v))

\* callHook(vm, hook) for a hook of keep-alive, in the pair VS of the
\* instances and the list of the hooks called so far
callHookIn(VS, v, hook) ==
  [vms |-> [VS.vms EXCEPT ![v].lastHook = hook],
   fired |-> Append(VS.fired, <<v, hook>>)]

RECURSIVE activateChildComponent(_, _, _)
RECURSIVE ActivateChildren(_, _)
RECURSIVE deactivateChildComponent(_, _, _)
RECURSIVE DeactivateChildren(_, _)

\* `for (...) activateChildComponent(vm.$children[i])`
ActivateChildren(VS, list) ==
  IF list = <<>> THEN VS
  ELSE ActivateChildren(activateChildComponent(VS, Head(list), FALSE), Tail(list))

\* lifecycle.js activateChildComponent(vm, direct)
activateChildComponent(VS, v, direct) ==
  LET V1 == IF direct THEN [VS EXCEPT !.vms[v].directInactive = FALSE] ELSE VS
  IN IF direct /\ isInInactiveTree(V1.vms, v) THEN V1
     ELSE IF ~direct /\ V1.vms[v].directInactive THEN V1
     ELSE IF V1.vms[v].inactive \in {"true", "null"}
     THEN callHookIn(ActivateChildren([V1 EXCEPT !.vms[v].inactive = "false"],
                                      Children(v)),
                     v, "activated")
     ELSE V1

\* `for (...) deactivateChildComponent(vm.$children[i])`
DeactivateChildren(VS, list) ==
  IF list = <<>> THEN VS
  ELSE DeactivateChildren(deactivateChildComponent(VS, Head(list), FALSE),
                          Tail(list))

\* lifecycle.js deactivateChildComponent(vm, direct)
deactivateChildComponent(VS, v, direct) ==
  LET V1 == IF direct THEN [VS EXCEPT !.vms[v].directInactive = TRUE] ELSE VS
  IN IF direct /\ isInInactiveTree(V1.vms, v) THEN V1
     ELSE IF V1.vms[v].inactive # "true"
     THEN callHookIn(DeactivateChildren([V1 EXCEPT !.vms[v].inactive = "true"],
                                        Children(v)),
                     v, "deactivated")
     ELSE V1

\* what a call of one of the two functions did: olog with the instance, the
\* direct argument and the hooks that were called, in order
AliveLog(op, v, direct, fired) ==
  [op |-> op, notified |-> <<>>, warned |-> FALSE, v |-> v, direct |-> direct,
   fired |-> fired]

\* activateChildComponent(vm, direct) is called (componentVNodeHooks.insert
\* and the scheduler call it with direct = true)
Activate(v, direct) ==
  /\ UserTop
  /\ LET VS == activateChildComponent([vms |-> vms, fired |-> <<>>], v, direct)
     IN /\ vms' = VS.vms
        /\ olog' = AliveLog("activate", v, direct, VS.fired)
  /\ UNCHANGED <<objs, shouldObserve, production, async, elog, vmWatchers, uid,
                 watchers, subs, target, targetStack, stack, schedVars, hist,
                 factory>>

\* deactivateChildComponent(vm, direct) is called (componentVNodeHooks.destroy
\* calls it with direct = true)
Deactivate(v, direct) ==
  /\ UserTop
  /\ LET VS == deactivateChildComponent([vms |-> vms, fired |-> <<>>], v, direct)
     IN /\ vms' = VS.vms
        /\ olog' = AliveLog("deactivate", v, direct, VS.fired)
  /\ UNCHANGED <<objs, shouldObserve, production, async, elog, vmWatchers, uid,
                 watchers, subs, target, targetStack, stack, schedVars, hist,
                 factory>>

NextAlive ==
  \/ \E v \in VmIds, direct \in BOOLEAN : Activate(v, direct)
  \/ \E v \in VmIds, direct \in BOOLEAN : Deactivate(v, direct)

SpecAlive == Init /\ [][NextAlive]_vars

\* the hooks that the step's call invoked on instance v, in order
FiredOn(fired, v) == SelectSeq(fired, LAMBDA e : e[1] = v)

\* ---------------------------------------------------------------- C38
\* C38: every call of activateChildComponent / deactivateChildComponent
\* invokes at most one hook per instance, and never the one that was invoked
\* last on that instance ('activated' and 'deactivated' alternate); a direct
\* activation of an instance with an inactive ancestor invokes no hook; and
\* no activation invokes 'activated' on an instance reached through its
\* parent (not direct) whose _directInactive is set.
C38_KeepAliveAlternation ==
  [][olog'.op \in {"activate", "deactivate"}
       => /\ \A v \in VmIds :
               /\ Len(FiredOn(olog'.fired, v)) <= 1
               /\ FiredOn(olog'.fired, v) # <<>>
                    => /\ FiredOn(olog'.fired, v)[1][2] # vms[v].lastHook
                       /\ FiredOn(olog'.fired, v)[1][2] =
                            (IF olog'.op = "activate" THEN "activated"
                             ELSE "deactivated")
          /\ (olog'.op = "activate" /\ olog'.direct
                /\ \E a \in 1..(olog'.v - 1) : vms[a].inactive = "true")
               => olog'.fired = <<>>
          /\ olog'.op = "activate"
               => \A v \in VmIds :
                    (vms[v].directInactive /\ ~(olog'.direct /\ v = olog'.v))
                      => FiredOn(olog'.fired, v) = <<>>]_vars

\* C38 witness: instance 3 has been activated directly while its parent was
\* active and its grandparent inactive: no hook was called and it is still
\* inactive, its last hook being 'deactivated' after an earlier 'activated'.
C38_Witness ==
  /\ olog = AliveLog("activate", 3, TRUE, <<>>)
  /\ vms[1].inactive = "true"
  /\ vms[2].inactive = "false"
  /\ vms[3].inactive = "true"
  /\ vms[3].lastHook = "deactivated"
  /\ vms[2].lastHook = "activated"

\* ------------------------------------------------------ async components
\* a resolveAsyncComponent that pushes the owner without the indexOf test
pushOwner_noIndexOf(owners, owner) == Append(owners, owner)

\* `if (... factory.owners.indexOf(owner) === -1) factory.owners.push(owner)`
pushOwner(owners, owner) ==
  IF owner \notin Range(owners) THEN Append(owners, owner) ELSE owners

\* util once(fn): the wrapper calls fn unless it has been called before
once(called) == ~called

\* forceRender(renderCompleted): $forceUpdate() of the owners (which have no
\* render watcher here: `if (vm._watcher)`), then with renderCompleted
\* `owners.length = 0` and both timers cleared
forceRender(F, renderCompleted) ==
  IF renderCompleted
  THEN [F EXCEPT !.owners = <<>>, !.timerLoading = FALSE, !.timerTimeout = FALSE]
  ELSE F

\* the resolve handed to the factory is called; sync is the variable of that
\* name in resolveAsyncComponent
resolveIn(F, sync) ==
  LET F0 == [F EXCEPT !.resolveCalls = @ + 1]
  IN IF once(F.resolveCalled)
     THEN LET F1 == [F0 EXCEPT !.resolveCalled = TRUE, !.resolved = TRUE,
                               !.resolveEffects = @ + 1]
          IN IF ~sync THEN forceRender(F1, TRUE) ELSE [F1 EXCEPT !.owners = <<>>]
     ELSE F0

\* the reject handed to the factory is called
rejectIn(F) ==
  LET F0 == [F EXCEPT !.rejectCalls = @ + 1]
  IN IF once(F.rejectCalled)
     THEN LET F1 == [F0 EXCEPT !.rejectCalled = TRUE, !.rejectEffects = @ + 1]
          IN IF F1.errorComp THEN forceRender([F1 EXCEPT !.error = TRUE], TRUE)
             ELSE F1
     ELSE F0

\* the calls of resolve and reject that the factory makes before it returns
RECURSIVE SyncCalls(_, _)
SyncCalls(F, calls) ==
  IF calls = <<>> THEN F
  ELSE SyncCalls(IF Head(calls) = "resolve" THEN resolveIn(F, TRUE)
                 ELSE rejectIn(F),
                 Tail(calls))

\* what a factory returns: nothing (it keeps resolve and reject), a Promise,
\* or an object with a component Promise and the options error, loading
\* (with delay 0 or not) and timeout
FactoryResults ==
  {[kind |-> "none", error |-> FALSE, loading |-> FALSE, delay0 |-> FALSE,
    timeout |-> FALSE],
   [kind |-> "promise", error |-> FALSE, loading |-> FALSE, delay0 |-> FALSE,
    timeout |-> FALSE]}
  \cup [kind : {"component"}, error : BOOLEAN, loading : BOOLEAN,
        delay0 : BOOLEAN, timeout : BOOLEAN]

\* resolveAsyncComponent from `const res = factory(resolve, reject)` on
AfterFactory(F, res) ==
  IF res.kind # "component" THEN F
  ELSE LET Fa == [F EXCEPT !.errorComp = @ \/ res.error,
                           !.loadingComp = @ \/ res.loading]
           Fb == IF ~res.loading THEN Fa
                 ELSE IF res.delay0 THEN [Fa EXCEPT !.loading = TRUE]
                 ELSE [Fa EXCEPT !.timerLoading = TRUE]
       IN IF res.timeout THEN [Fb EXCEPT !.timerTimeout = TRUE] ELSE Fb

\* resolveAsyncComponent(factory, baseCtor) with currentRenderingInstance =
\* owner (0 for null), for a factory that calls `calls` and returns res
resolveAsyncComponent(F, owner, calls, res) ==
  IF (F.error /\ F.errorComp) \/ F.resolved THEN F
  ELSE LET F1 == IF owner # 0 /\ F.ownersDef
                 THEN [F EXCEPT !.owners = pushOwner(@, owner)]
                 ELSE F
       IN IF F1.loading /\ F1.loadingComp THEN F1
          ELSE IF owner # 0 /\ ~F1.ownersDef
          THEN AfterFactory(
                 SyncCalls([F1 EXCEPT !.ownersDef = TRUE, !.owners = <<owner>>,
                                      !.firstOwner = owner, !.invoked = @ + 1],
                           calls),
                 res)
          ELSE F1

\* everything but the factory
notFactory == <<obsVars, vmWatchers, vms, uid, watchers, subs, target,
                targetStack, stack, schedVars, hist>>

\* createComponent calls resolveAsyncComponent while owner is rendering
ResolveAsync(owner, calls, res) ==
  /\ factory.requests < MaxRequests
  /\ factory' = resolveAsyncComponent([factory EXCEPT !.requests = @ + 1],
                                      owner, calls, res)
  /\ UNCHANGED notFactory

\* resolve is called after resolveAsyncComponent has returned (by the
\* Promise or by the code the factory gave it to)
SettleResolve ==
  /\ factory.invoked > 0
  /\ factory.resolveCalls < MaxSettleCalls
  /\ factory' = resolveIn(factory, FALSE)
  /\ UNCHANGED notFactory

\* reject is called after resolveAsyncComponent has returned
SettleReject ==
  /\ factory.invoked > 0
  /\ factory.rejectCalls < MaxSettleCalls
  /\ factory' = rejectIn(factory)
  /\ UNCHANGED notFactory

\* the loading timer fires
LoadingTimer ==
  /\ factory.timerLoading
  /\ factory' = [factory EXCEPT !.timerLoading = FALSE,
                                !.loading = @ \/ (~factory.resolved /\ ~factory.error)]
  /\ UNCHANGED notFactory

\* the timeout timer fires
TimeoutTimer ==
  /\ factory.timerTimeout
  /\ factory.rejectCalls < MaxSettleCalls
  /\ factory' = IF ~factory.resolved
                THEN rejectIn([factory EXCEPT !.timerTimeout = FALSE])
                ELSE [factory EXCEPT !.timerTimeout = FALSE]
  /\ UNCHANGED notFactory

\* the first owner is destroyed: `$on('hook:destroyed', () => remove(owners, owner))`
OwnerDestroyed ==
  /\ factory.firstOwner # 0
  /\ factory' = [factory EXCEPT !.owners = remove(@, factory.firstOwner)]
  /\ UNCHANGED notFactory

NextAsync ==
  \/ \E owner \in 0..NumVms, res \in FactoryResults,
        calls \in {<<>>, <<"resolve">>, <<"reject">>, <<"resolve", "resolve">>,
                   <<"reject", "resolve">>} :
       ResolveAsync(owner, calls, res)
  \/ SettleResolve
  \/ SettleReject
  \/ LoadingTimer
  \/ TimeoutTimer
  \/ OwnerDestroyed

SpecAsync == Init /\ [][NextAsync]_vars

\* ---------------------------------------------------------------- C39
\* C39: the factory function is called at most once, whatever the number of
\* resolveAsyncComponent calls and owners; no owner is in factory.owners
\* twice; and the functions wrapped as resolve and reject are each executed
\* at most once, however often resolve and reject are called.
C39_AsyncResolveOnce ==
  /\ factory.invoked <= 1
  /\ Cardinality(Range(factory.owners)) = Len(factory.owners)
  /\ factory.resolveEffects <= 1
  /\ factory.rejectEffects <= 1
  /\ factory.resolveEffects = (IF factory.resolveCalls > 0 THEN 1 ELSE 0)
  /\ factory.rejectEffects = (IF factory.rejectCalls > 0 THEN 1 ELSE 0)

\* C39 witness: three resolveAsyncComponent calls from two owners (one of
\* them twice) have called the factory once and recorded each owner once,
\* and reject has been called twice and has been executed once.
C39_Witness ==
  /\ factory.requests = 3
  /\ factory.invoked = 1
  /\ factory.owners = <<1, 2>>
  /\ factory.rejectCalls = 2
  /\ factory.rejectEffects = 1

\* ---------------------------------------------------------------- C40
\* an evaluation of watcher w is in progress: a get() of w is on the stack
Evaluating(w) ==
  \E k \in 1..Len(stack) : stack[k].kind = "get" /\ stack[k].w = w

====
